---------------------------- MODULE Spec2Model ----------------------------
(***************************************************************************)
(* A state-machine model of capypdf's PDF object graph builder:            *)
(*   - PdfDrawContext's draw-state stack (src/src/drawcontext.hpp),        *)
(*   - the font subsets of PdfDocument and their padding,                  *)
(*   - PdfDocument's object table and the operations that append to it     *)
(*     (src/src/pdfdocument.cpp).                                          *)
(***************************************************************************)
EXTENDS Integers, Sequences, FiniteSets, TLC

VARIABLES
    \* ---- PdfDrawContext (drawcontext.hpp:287-317)
    dstate_stack,   \* std::vector<DrawStateType>
    ind,            \* std::string of indentation characters
    draw_ret,       \* result of the latest indent/dedent call
    opens,          \* per kind: successful indent calls (operators opened)
    closes,         \* per kind: successful dedent calls (operators closed)
    guards,         \* live: the GstatePopper objects in scope, innermost last,
                    \*   each as the draw-state stack at its push_gstate call;
                    \* ended: the guard whose destructor was the latest call
    ctx,            \* doc: the document the context was constructed for
                    \*   ("this" is the modelled PdfDocument);
                    \* context_type: its CapyPDF_Draw_Context_Type
    \* ---- PdfDocument (one record holding the members of the class)
    doc,
    ret,            \* the latest document operation: its name, error, value
    \* ---- the process
    aborted         \* std::abort() was reached

draw_vars == <<dstate_stack, ind, draw_ret, opens, closes, guards, ctx>>
vars == <<dstate_stack, ind, draw_ret, opens, closes, guards, ctx, doc, ret, aborted>>

NoValue == "none"

\* The value of a call that returns none (NoReturnValue, or an error).
NoVal == [none |-> TRUE]
\* A returned id or object number.
Id(n) == [id |-> n]

\* std::optional: empty, or holding a value.
None == <<>>
Some(v) == <<v>>
ValueOf(o) == o[1]

\* ------------------------------------------------------------------------
\* Bounds of the model
\* ------------------------------------------------------------------------
MaxDrawOpens == 5
MaxFonts == 1
MaxPages == 2
MaxOcgs == 1
MaxOutlines == 1
MaxEmbeddedFiles == 1
MaxStructureItems == 1
MaxAddedObjects == 3
MaxCtxOpens == 3
MaxOutlineTree == 3
MaxNavEntries == 3

\* ------------------------------------------------------------------------
\* PdfDrawContext: indent / dedent
\* ------------------------------------------------------------------------
DrawStateType == {"MarkedContent", "SaveState", "Text"}

SumOver(f) == f["MarkedContent"] + f["SaveState"] + f["Text"]

InitDraw ==
    /\ dstate_stack = <<>>
    /\ guards = [live |-> <<>>, ended |-> None]
    /\ ctx = [doc |-> "this", context_type |-> "CAPY_DC_PAGE"]
    /\ ind = <<>>
    /\ draw_ret = NoValue
    /\ opens = [k \in DrawStateType |-> 0]
    /\ closes = [k \in DrawStateType |-> 0]

\* std::string::pop_back
pop_back(s) == SubSeq(s, 1, Len(s) - 1)

\* indent that widens the indentation by one character.
indent_one_space(dtype) ==
    /\ ~aborted
    /\ SumOver(opens) < MaxDrawOpens
    /\ IF dtype = "MarkedContent"
          /\ \E i \in 1..Len(dstate_stack) : dstate_stack[i] = dtype
       THEN /\ draw_ret' = "NestedBMC"
            /\ UNCHANGED <<dstate_stack, ind, opens, closes, aborted, doc, ret>>
       ELSE /\ dstate_stack' = Append(dstate_stack, dtype)
            /\ ind' = ind \o <<" ">>
            /\ draw_ret' = "ok"
            /\ opens' = [opens EXCEPT ![dtype] = @ + 1]
            /\ UNCHANGED <<closes, aborted, doc, ret>>

\* indent that looks for an open marked-content entry only on top of the stack.
indent_top_only(dtype) ==
    /\ ~aborted
    /\ SumOver(opens) < MaxDrawOpens
    /\ IF dtype = "MarkedContent"
          /\ dstate_stack # <<>>
          /\ dstate_stack[Len(dstate_stack)] = dtype
       THEN /\ draw_ret' = "NestedBMC"
            /\ UNCHANGED <<dstate_stack, ind, opens, closes, aborted, doc, ret>>
       ELSE /\ dstate_stack' = Append(dstate_stack, dtype)
            /\ ind' = ind \o <<" ", " ">>
            /\ draw_ret' = "ok"
            /\ opens' = [opens EXCEPT ![dtype] = @ + 1]
            /\ UNCHANGED <<closes, aborted, doc, ret>>

indent(dtype) ==
    /\ ~aborted
    /\ SumOver(opens) < MaxDrawOpens
    /\ IF dtype = "MarkedContent"
          /\ \E i \in 1..Len(dstate_stack) : dstate_stack[i] = dtype
       THEN /\ draw_ret' = "NestedBMC"
            /\ UNCHANGED <<dstate_stack, ind, opens, closes, aborted, doc, ret>>
       ELSE /\ dstate_stack' = Append(dstate_stack, dtype)
            /\ ind' = ind \o <<" ", " ">>
            /\ draw_ret' = "ok"
            /\ opens' = [opens EXCEPT ![dtype] = @ + 1]
            /\ UNCHANGED <<closes, aborted, doc, ret>>

dedent_any_top(dtype) ==
    /\ ~aborted
    /\ IF dstate_stack = <<>>
       THEN /\ draw_ret' = "DrawStateEndMismatch"
            /\ UNCHANGED <<dstate_stack, ind, opens, closes, aborted, doc, ret>>
       ELSE IF Len(ind) < 2
       THEN /\ aborted' = TRUE
            /\ UNCHANGED <<dstate_stack, ind, draw_ret, opens, closes, doc, ret>>
       ELSE /\ dstate_stack' = pop_back(dstate_stack)
            /\ ind' = pop_back(pop_back(ind))
            /\ draw_ret' = "ok"
            /\ closes' = [closes EXCEPT ![dtype] = @ + 1]
            /\ UNCHANGED <<opens, aborted, doc, ret>>

dedent(dtype) ==
    /\ ~aborted
    /\ IF dstate_stack = <<>>
       THEN /\ draw_ret' = "DrawStateEndMismatch"
            /\ UNCHANGED <<dstate_stack, ind, opens, closes, aborted, doc, ret>>
       ELSE IF dstate_stack[Len(dstate_stack)] # dtype
       THEN /\ draw_ret' = "DrawStateEndMismatch"
            /\ UNCHANGED <<dstate_stack, ind, opens, closes, aborted, doc, ret>>
       ELSE IF Len(ind) < 2
       THEN /\ aborted' = TRUE
            /\ UNCHANGED <<dstate_stack, ind, draw_ret, opens, closes, doc, ret>>
       ELSE /\ dstate_stack' = pop_back(dstate_stack)
            /\ ind' = pop_back(pop_back(ind))
            /\ draw_ret' = "ok"
            /\ closes' = [closes EXCEPT ![dtype] = @ + 1]
            /\ UNCHANGED <<opens, aborted, doc, ret>>

\* ------------------------------------------------------------------------
\* PdfDrawContext: q / Q and the scoped guard
\* ------------------------------------------------------------------------
\* cmd_q: opens a SaveState.
cmd_q == indent("SaveState")

\* cmd_Q: closes a SaveState.
cmd_Q == dedent("SaveState")

\* push_gstate: cmd_q, then a GstatePopper for this context is returned.
push_gstate ==
    /\ cmd_q
    /\ guards' = [live |-> Append(guards.live, dstate_stack), ended |-> None]
    /\ UNCHANGED ctx

\* ~GstatePopper: the guard goes out of scope and issues cmd_Q on its context;
\* a destructor has nowhere to return the result of that call.
GstatePopper_destroy ==
    /\ guards.live # <<>>
    /\ cmd_Q
    /\ guards' = [live |-> SubSeq(guards.live, 1, Len(guards.live) - 1),
                  ended |-> Some(guards.live[Len(guards.live)])]
    /\ UNCHANGED ctx

\* ------------------------------------------------------------------------
\* PdfDocument: the object table
\* ------------------------------------------------------------------------
NoError == "ok"

\* A result-carrying return (rvoe<T>): the document after the call, the
\* error code (NoError on success) and the returned value.
Result(d, err, val) == [doc |-> d, err |-> err, val |-> val]

\* The variants of ObjectType that the modelled operations store.
DummyIndexZero == [kind |-> "DummyIndexZero"]
DelayedPages == [kind |-> "DelayedPages"]
FullPDFObject(tag, d) == [kind |-> "FullPDFObject", tag |-> tag, d |-> d]
DeflatePDFObject(tag, d) == [kind |-> "DeflatePDFObject", tag |-> tag, d |-> d]

\* document_objects.size()
size(objs) == Len(objs)

\* document_objects.at(n): C++ index n is position n + 1 of the sequence.
ObjAt(d, n) == d.document_objects[n + 1]

\* add_object as it would be with the number taken after the push_back.
add_object_after_push(d, object) ==
    LET objs == Append(d.document_objects, object)
        object_num == size(objs)
    IN [doc |-> [d EXCEPT !.document_objects = objs,
                          !.issued = Append(@, [num |-> object_num,
                                                obj |-> object])],
        val |-> object_num]

\* PdfDocument::add_object. issued is the history of the numbers handed out.
add_object(d, object) ==
    LET object_num == size(d.document_objects)
    IN [doc |-> [d EXCEPT !.document_objects = Append(@, object),
                          !.issued = Append(@, [num |-> object_num,
                                                obj |-> object])],
        val |-> object_num]

\* The members of a PdfDocument before init() ran.
NewDocument(opts, cm) ==
    [state |-> "unconstructed",
     opts |-> opts,
     cm |-> cm,
     document_objects |-> <<>>,
     issued |-> <<>>,
     pages |-> <<>>,
     form_use |-> <<>>,
     annotation_use |-> <<>>,
     structure_use |-> <<>>,
     structure_parent_tree_items |-> <<>>,
     annotations |-> <<>>,
     form_widgets |-> <<>>,
     form_xobjects |-> <<>>,
     structure_items |-> <<>>,
     ocg_items |-> <<>>,
     outlines |-> [items |-> <<>>, parent |-> <<>>, children |-> <<>>],
     embedded_files |-> <<>>,
     transparency_groups |-> <<>>,
     image_info |-> <<>>,
     separation_objects |-> <<>>,
     icc_profiles |-> <<>>,
     output_profile |-> None,
     page_group_object |-> 0,
     pages_object |-> 0,
     output_intent_object |-> None,
     structure_parent_tree_object |-> None,
     structure_root_object |-> None,
     font_objects |-> <<>>,
     builtin_fonts |-> <<>>,
     fonts |-> <<>>]

\* PdfDocument::generate_info_object
generate_info_object(d) ==
    LET subtype == IF d.opts.subtype = NoValue THEN "PDFA" ELSE d.opts.subtype
    IN add_object(d, FullPDFObject("Info", [GTS_PDFXVersion |-> subtype = "PDFX"]))

\* PdfDocument::create_separation
create_separation(d, name) ==
    LET fn == add_object(d, FullPDFObject("Function", [FunctionType |-> 4]))
        sep == add_object(fn.doc, FullPDFObject("Separation",
                                    [name |-> name, fn |-> fn.val]))
        d2 == [sep.doc EXCEPT !.separation_objects = Append(@, sep.val)]
    IN Result(d2, NoError, Id(Len(d2.separation_objects) - 1))

\* PdfDocument::find_icc_profile: the index of the profile whose stream
\* holds these bytes, None when there is none.
find_icc_profile(d, contents) ==
    LET hits == {i \in 1..Len(d.icc_profiles) :
                    ObjAt(d, d.icc_profiles[i].stream_num).d.stream = contents}
    IN IF hits = {} THEN None
       ELSE Some((CHOOSE i \in hits : \A j \in hits : i <= j) - 1)

\* PdfDocument::store_icc_profile. assert_failed: assert(!existing) does not
\* hold; a build with assertions stops there, a build without them goes on
\* to the result given here.
store_icc_profile(d, contents, num_channels) ==
    IF contents = ""
    THEN [doc |-> d, val |-> -1,
          assert_failed |-> find_icc_profile(d, contents) # None]
    ELSE LET st == add_object(d, DeflatePDFObject("ICCStream",
                                  [N |-> num_channels, stream |-> contents]))
             ob == add_object(st.doc, FullPDFObject("ICCBased",
                                  [stream_obj |-> st.val]))
             d2 == [ob.doc EXCEPT !.icc_profiles =
                        Append(@, [stream_num |-> st.val,
                                   object_num |-> ob.val,
                                   num_channels |-> num_channels])]
         IN [doc |-> d2, val |-> Len(d2.icc_profiles) - 1,
             assert_failed |-> find_icc_profile(d, contents) # None]

\* PdfDocument::create_page_group
create_page_group(d) ==
    add_object(d, FullPDFObject("PageGroup", [CS |-> d.opts.output_colorspace]))

\* PdfDocument::create_output_intent
\* create_output_intent that adds the object and leaves output_intent_object unset.
create_output_intent_unrecorded(d) ==
    add_object(d, FullPDFObject("OutputIntent",
                  [S |-> d.opts.subtype,
                   OutputConditionIdentifier |-> d.opts.intent_condition_identifier,
                   DestOutputProfile |->
                       d.icc_profiles[ValueOf(d.output_profile) + 1].stream_num])).doc

\* PdfDocument::create_output_intent
create_output_intent(d) ==
    LET o == add_object(d, FullPDFObject("OutputIntent",
                  [S |-> d.opts.subtype,
                   OutputConditionIdentifier |-> d.opts.intent_condition_identifier,
                   DestOutputProfile |->
                       d.icc_profiles[ValueOf(d.output_profile) + 1].stream_num]))
    IN [o.doc EXCEPT !.output_intent_object = Some(o.val)]

\* PdfDocument::init, the body of PdfDocument::construct. A failed
\* construction returns the error and no document.
init(d0) ==
    LET cs == d0.opts.output_colorspace
        d1 == [d0 EXCEPT !.document_objects = Append(@, DummyIndexZero)]
        d2 == generate_info_object(d1).doc
        d3 == IF cs = "DeviceCMYK" THEN create_separation(d2, "All").doc ELSE d2
        profile == CASE cs = "DeviceRGB" -> d0.cm.rgb
                     [] cs = "DeviceGray" -> d0.cm.gray
                     [] cs = "DeviceCMYK" -> d0.cm.cmyk
        channels == CASE cs = "DeviceRGB" -> 3
                      [] cs = "DeviceGray" -> 1
                      [] cs = "DeviceCMYK" -> 4
        stored == store_icc_profile(d3, profile, channels)
        d4 == IF profile # ""
              THEN [stored.doc EXCEPT !.output_profile = Some(stored.val)]
              ELSE d3
        group == create_page_group(d4)
        d5 == [group.doc EXCEPT !.page_group_object = group.val]
        d6 == [d5 EXCEPT !.document_objects = Append(@, DelayedPages),
                         !.issued = Append(@, [num |-> size(d5.document_objects),
                                               obj |-> DelayedPages]),
                         !.pages_object = size(d5.document_objects)]
        failed == [d0 EXCEPT !.state = "construct_failed"]
    IN IF cs = "DeviceCMYK" /\ profile = ""
       THEN Result(failed, "OutputProfileMissing", NoVal)
       ELSE IF d0.opts.subtype = NoValue
       THEN Result([d6 EXCEPT !.state = "ready"], NoError, NoVal)
       ELSE IF d6.output_profile = None
       THEN Result(failed, "OutputProfileMissing", NoVal)
       ELSE IF d0.opts.intent_condition_identifier = ""
       THEN Result(failed, "MissingIntentIdentifier", NoVal)
       ELSE Result([create_output_intent(d6) EXCEPT !.state = "ready"],
                   NoError, NoVal)

\* PdfDocument::construct
construct ==
    /\ ~aborted
    /\ doc.state = "unconstructed"
    /\ LET r == init(doc)
       IN /\ doc' = r.doc
          /\ ret' = [op |-> "construct", err |-> r.err, val |-> r.val]
    /\ UNCHANGED <<draw_vars, aborted>>

\* ------------------------------------------------------------------------
\* Fonts: FontSubsetter, get_subset_glyph, pad_subset_fonts, load_font
\* ------------------------------------------------------------------------
\* Largest number of glyphs one subset holds.
max_glyphs == 256
\* pad_subset_fonts: const uint32_t SPACE = ' ', max_count, and '!'.
SPACE == 32
max_count == 100
EXCLAMATION == 33

\* Font files handed to load_font, and the codepoints for which the face of
\* a loaded file has no glyph (FT_Get_Char_Index returns 0).
FontFiles == {"regular.ttf", "collection.otf"}
UnmappedCodepoints == {65535}
FT_Get_Char_Index(face, glyph) == IF glyph \in UnmappedCodepoints THEN 0 ELSE 1

\* FontSubsetter::construct: a subsetter starts with one subset.
FontSubsetter_construct == <<  <<>>  >>

\* The first slot (subset, offset; both counted from 0) holding the
\* codepoint, None when no subset holds it.
find_glyph(subsets, cp) ==
    LET holding == {s \in 1..Len(subsets) :
                       \E i \in 1..Len(subsets[s]) : subsets[s][i] = cp}
    IN IF holding = {} THEN None
       ELSE LET s == CHOOSE x \in holding : \A y \in holding : x <= y
                at == {i \in 1..Len(subsets[s]) : subsets[s][i] = cp}
                i == CHOOSE x \in at : \A y \in at : x <= y
            IN Some([subset |-> s - 1, offset |-> i - 1])

\* FontSubsetter::unchecked_insert_glyph_to_last_subset: append without
\* looking the codepoint up; a full last subset opens a new one.
unchecked_insert_glyph_to_last_subset(subsets, cp) ==
    LET last == Len(subsets)
    IN IF Len(subsets[last]) < max_glyphs
       THEN [subsets |-> [subsets EXCEPT ![last] = Append(@, cp)],
             subset |-> last - 1, offset |-> Len(subsets[last])]
       ELSE [subsets |-> Append(subsets, <<cp>>),
             subset |-> last, offset |-> 0]

\* FontSubsetter::get_glyph_subset
get_glyph_subset(subsets, cp) ==
    LET trial == find_glyph(subsets, cp)
    IN IF trial # None
       THEN [subsets |-> subsets, subset |-> ValueOf(trial).subset,
             offset |-> ValueOf(trial).offset]
       ELSE unchecked_insert_glyph_to_last_subset(subsets, cp)

\* get_subset_glyph as it would be if it inserted without the lookup.
get_subset_glyph_unchecked(d, fid, glyph) ==
    LET font == d.fonts[fid + 1]
    IN IF FT_Get_Char_Index(font.face, glyph) = 0
       THEN Result(d, "MissingGlyph", NoVal)
       ELSE LET blub == unchecked_insert_glyph_to_last_subset(font.subsets, glyph)
            IN Result([d EXCEPT !.fonts[fid + 1].subsets = blub.subsets],
                      NoError,
                      [fid |-> fid, subset_id |-> blub.subset,
                       glyph_id |-> blub.offset])

\* get_subset_glyph as it would be with subset and offset exchanged.
get_subset_glyph_swapped(d, fid, glyph) ==
    LET font == d.fonts[fid + 1]
    IN IF FT_Get_Char_Index(font.face, glyph) = 0
       THEN Result(d, "MissingGlyph", NoVal)
       ELSE LET blub == get_glyph_subset(font.subsets, glyph)
            IN Result([d EXCEPT !.fonts[fid + 1].subsets = blub.subsets],
                      NoError,
                      [fid |-> fid, subset_id |-> blub.offset,
                       glyph_id |-> blub.subset])

\* PdfDocument::get_subset_glyph
get_subset_glyph(d, fid, glyph) ==
    LET font == d.fonts[fid + 1]
    IN IF FT_Get_Char_Index(font.face, glyph) = 0
       THEN Result(d, "MissingGlyph", NoVal)
       ELSE LET blub == get_glyph_subset(font.subsets, glyph)
            IN Result([d EXCEPT !.fonts[fid + 1].subsets = blub.subsets],
                      NoError,
                      [fid |-> fid, subset_id |-> blub.subset,
                       glyph_id |-> blub.offset])

\* PdfDrawContext::render_glyphs, its effect on the document: the n
\* codepoints from cp on are resolved in order, stopping at the first error.
\* (The run is split in two halves that are resolved one after the other.)
RECURSIVE render_glyphs(_, _, _, _)
render_glyphs(d, fid, cp, n) ==
    IF n = 0 THEN Result(d, NoError, NoVal)
    ELSE IF n = 1 THEN get_subset_glyph(d, fid, cp)
    ELSE LET half == n \div 2
             first == render_glyphs(d, fid, cp, half)
         IN IF first.err # NoError THEN first
            ELSE render_glyphs(first.doc, fid, cp + half, n - half)

\* One iteration of the loop of pad_subset_fonts: the break when the subset
\* has SPACE entries, else the request for the glyph of '!' + i.
pad_iteration(st, subset_id, i) ==
    IF Len(st.subsets[subset_id + 1]) = SPACE
    THEN [st EXCEPT !.padding_succeeded = TRUE]
    ELSE [st EXCEPT !.subsets = get_glyph_subset(@, EXCLAMATION + i).subsets]

\* The iterations i .. j-1 of that loop, in order, up to the break (the
\* range is split in two halves that run one after the other).
RECURSIVE pad_loop(_, _, _, _)
pad_loop(st, subset_id, i, j) ==
    IF j <= i THEN st
    ELSE IF j = i + 1 THEN pad_iteration(st, subset_id, i)
    ELSE LET mid == (i + j) \div 2
             left == pad_loop(st, subset_id, i, mid)
         IN IF left.padding_succeeded THEN left
            ELSE pad_loop(left, subset_id, mid, j)

\* The body of the loop over the fonts in pad_subset_fonts, for one font.
pad_font(subsets) ==
    LET subset_id == Len(subsets) - 1
    IN IF Len(subsets[subset_id + 1]) > SPACE
       THEN [aborted |-> FALSE, subsets |-> subsets]
       ELSE LET padded == pad_loop([padding_succeeded |-> FALSE,
                                    subsets |-> subsets],
                                   subset_id, 0, max_count)
            IN IF ~padded.padding_succeeded
               THEN [aborted |-> TRUE, subsets |-> padded.subsets]
               ELSE [aborted |-> FALSE,
                     subsets |-> unchecked_insert_glyph_to_last_subset(
                                     padded.subsets, SPACE).subsets]

\* PdfDocument::pad_subset_fonts, from font number k (counted from 1) on.
RECURSIVE pad_subset_fonts_from(_, _)
pad_subset_fonts_from(fonts, k) ==
    IF k > Len(fonts) THEN [aborted |-> FALSE, fonts |-> fonts]
    ELSE LET one == pad_font(fonts[k].subsets)
             padded == [fonts EXCEPT ![k].subsets = one.subsets]
         IN IF one.aborted THEN [aborted |-> TRUE, fonts |-> padded]
            ELSE pad_subset_fonts_from(padded, k + 1)

\* PdfDocument::load_font. A file FreeType or the validation rejects is
\* refused before anything is stored.
load_font(d, fname) ==
    IF fname # "regular.ttf"
    THEN Result(d, "UnsupportedFormat", NoVal)
    ELSE LET font_source_id == Len(d.fonts)
             d1 == [d EXCEPT !.fonts = Append(@, [face |-> fname,
                                   subsets |-> FontSubsetter_construct])]
             data == add_object(d1, [kind |-> "DelayedSubsetFontData",
                        fid |-> font_source_id, subset_id |-> 0])
             descr == add_object(data.doc, [kind |-> "DelayedSubsetFontDescriptor",
                        fid |-> font_source_id, subfont_data_obj |-> data.val,
                        subset_num |-> 0])
             cmap == add_object(descr.doc, [kind |-> "DelayedSubsetCMap",
                        fid |-> font_source_id, subset_id |-> 0])
             subfont == add_object(cmap.doc, [kind |-> "DelayedSubsetFont",
                        fid |-> font_source_id,
                        subfont_descriptor_obj |-> descr.val,
                        subfont_cmap_obj |-> cmap.val])
             d2 == [subfont.doc EXCEPT !.font_objects =
                        Append(@, [font_file_obj |-> data.val,
                                   font_descriptor_obj |-> descr.val,
                                   font_obj |-> subfont.val,
                                   font_index_tmp |-> Len(d1.fonts) - 1])]
         IN Result(d2, NoError, Id(Len(d1.fonts) - 1))

\* ------------------------------------------------------------------------
\* PdfDocument: annotations, widgets, structure items, OCGs, outlines, files
\* ------------------------------------------------------------------------
\* CHECK_INDEXNESS_V: the id is an index of the container.
IsIndex(id, container) == 0 <= id /\ id < Len(container)

\* A std::map / std::unordered_map as a function; m[k] = v.
MapSet(m, k, v) == [x \in (DOMAIN m) \cup {k} |-> IF x = k THEN v ELSE m[x]]

\* ---- patterns and transparency groups built from a draw context
\* The draw context as the document's operations see it.
DrawContext == [doc |-> ctx.doc,
                context_type |-> ctx.context_type,
                dstate_stack |-> dstate_stack]

\* PdfDrawContext::marked_content_depth: the number of open BMC/BDC.
marked_content_depth(c) ==
    Cardinality({i \in 1..Len(c.dstate_stack) : c.dstate_stack[i] = "MarkedContent"})

\* PdfDrawContext::has_unclosed_state
has_unclosed_state(c) == c.dstate_stack # <<>>

\* PdfDocument::add_pattern
add_pattern(d, c) ==
    IF c.doc # "this"
    THEN Result(d, "IncorrectDocumentForObject", NoVal)
    ELSE IF c.context_type # "CAPY_DC_COLOR_TILING"
    THEN Result(d, "InvalidDrawContextType", NoVal)
    ELSE IF marked_content_depth(c) # 0
    THEN Result(d, "UnclosedMarkedContent", NoVal)
    ELSE LET x == add_object(d, FullPDFObject("Pattern", [ctx |-> c]))
         IN Result(x.doc, NoError, Id(x.val))

\* PdfDocument::add_transparency_group
add_transparency_group(d, c) ==
    IF c.context_type # "CAPY_DC_TRANSPARENCY_GROUP"
    THEN Result(d, "InvalidDrawContextType", NoVal)
    ELSE IF marked_content_depth(c) # 0
    THEN Result(d, "UnclosedMarkedContent", NoVal)
    ELSE LET x == add_object(d, FullPDFObject("TransparencyGroup", [ctx |-> c]))
             d2 == [x.doc EXCEPT !.transparency_groups = Append(@, x.val)]
         IN Result(d2, NoError, Id(Len(d2.transparency_groups) - 1))

\* ---- ICC profiles and images
\* num_channels_for
num_channels_for(cs) ==
    CASE cs = "DeviceRGB" -> 3
      [] cs = "DeviceGray" -> 1
      [] cs = "DeviceCMYK" -> 4

\* PdfDocument::load_icc_file. file: whether load_file can read it, its
\* bytes (an ICC profile), and the channel count get_num_channels reads
\* from them.
load_icc_file(d, file) ==
    IF ~file.readable
    THEN [doc |-> d, err |-> "CouldNotOpenFile", val |-> NoVal, assert_failed |-> FALSE]
    ELSE IF find_icc_profile(d, file.contents) # None
    THEN [doc |-> d, err |-> NoError,
          val |-> Id(ValueOf(find_icc_profile(d, file.contents))),
          assert_failed |-> FALSE]
    ELSE LET stored == store_icc_profile(d, file.contents, file.num_channels)
         IN [doc |-> stored.doc, err |-> NoError, val |-> Id(stored.val),
             assert_failed |-> stored.assert_failed]

\* PdfDocument::add_image_object. colorspace is a device colorspace
\* [cs |-> name] or an ICC colorspace [icc |-> id].
add_image_object(d, w, h, colorspace, smask_id, is_mask, uncompressed_bytes) ==
    LET dict == [Width |-> w, Height |-> h,
                 ImageMask |-> is_mask,
                 ColorSpace |-> IF is_mask THEN None
                                ELSE IF "cs" \in DOMAIN colorspace
                                THEN Some(colorspace)
                                ELSE Some([icc_obj |->
                                       d.icc_profiles[colorspace.icc + 1].object_num]),
                 SMask |-> smask_id,
                 stream |-> <<"flate", uncompressed_bytes>>]
        im == add_object(d, FullPDFObject("Image", dict))
        d2 == [im.doc EXCEPT !.image_info = Append(@, [w |-> w, h |-> h, obj |-> im.val])]
    IN Result(d2, NoError, Id(Len(d2.image_info) - 1))

\* PdfDocument::add_image
add_image(d, image, is_mask) ==
    LET fail(e) == [doc |-> d, err |-> e, val |-> NoVal, assert_failed |-> FALSE]
    IN
    IF image.w <= 0 \/ image.h <= 0 THEN fail("InvalidImageSize")
    ELSE IF image.pixels = "" THEN fail("MissingPixels")
    ELSE IF is_mask /\ image.alpha # "" THEN fail("MaskAndAlpha")
    ELSE
    LET imobj == IF image.alpha # ""
                 THEN add_image_object(d, image.w, image.h, [cs |-> "DeviceGray"],
                                       None, FALSE, image.alpha)
                 ELSE Result(d, NoError, NoVal)
        d1 == imobj.doc
        smask_id == IF image.alpha # ""
                    THEN Some(d1.image_info[imobj.val.id + 1].obj)
                    ELSE None
        plain == add_image_object(d1, image.w, image.h, [cs |-> image.cs],
                                  smask_id, is_mask, image.pixels)
        done(r, af) == [doc |-> r.doc, err |-> r.err, val |-> r.val, assert_failed |-> af]
        failed(e) == [doc |-> d1, err |-> e, val |-> NoVal, assert_failed |-> FALSE]
    IN
    IF image.icc_profile # ""
    THEN LET stored == store_icc_profile(d1, image.icc_profile,
                                         num_channels_for(image.cs))
         IN done(add_image_object(stored.doc, image.w, image.h, [icc |-> stored.val],
                                  smask_id, is_mask, image.pixels),
                 stored.assert_failed)
    ELSE IF image.cs = "DeviceGray" THEN done(plain, FALSE)
    ELSE IF d.opts.output_colorspace \in {"DeviceRGB", "DeviceGray"} THEN done(plain, FALSE)
    ELSE IF d.opts.output_colorspace = "DeviceCMYK"
    THEN IF d.cm.cmyk = "" THEN failed("NoCmykProfile")
         ELSE IF image.cs # "DeviceCMYK" THEN failed("UnsupportedFormat")
         ELSE done(plain, FALSE)
    ELSE failed("Unreachable")

\* PdfDocument::add_form_xobject
add_form_xobject(d) ==
    LET x == add_object(d, FullPDFObject("FormXObject", [stream |-> "xobj"]))
    IN Result([x.doc EXCEPT !.form_xobjects = Append(@, [xobj_num |-> x.val])],
              NoError, NoVal)

\* PdfDocument::create_annotation
create_annotation(d, has_rect) ==
    IF ~has_rect
    THEN Result(d, "AnnotationMissingRect", NoVal)
    ELSE LET annot_id == Len(d.annotations)
             a == add_object(d, [kind |-> "DelayedAnnotation", id |-> annot_id])
         IN Result([a.doc EXCEPT !.annotations = Append(@, a.val)],
                   NoError, Id(annot_id))

\* PdfDocument::create_form_checkbox
create_form_checkbox(d, onstate, offstate) ==
    IF ~IsIndex(onstate, d.form_xobjects) \/ ~IsIndex(offstate, d.form_xobjects)
    THEN Result(d, "IndexOutOfBounds", NoVal)
    ELSE LET f == add_object(d, [kind |-> "DelayedCheckboxWidgetAnnotation",
                                 widget |-> Len(d.form_widgets),
                                 on |-> onstate, off |-> offstate])
             d2 == [f.doc EXCEPT !.form_widgets = Append(@, f.val)]
         IN Result(d2, NoError, Id(Len(d2.form_widgets) - 1))

\* add_structure_item that takes any parent id.
add_structure_item_any_parent(d, stype, parent) ==
    LET stritem_id == Len(d.structure_items)
        o == add_object(d, [kind |-> "DelayedStructItem", sid |-> stritem_id])
        d2 == [o.doc EXCEPT !.structure_items =
                   Append(@, [obj_id |-> o.val, stype |-> stype,
                              parent |-> parent])]
    IN Result(d2, NoError, Id(Len(d2.structure_items) - 1))

\* PdfDocument::add_structure_item (both overloads; parent is an optional)
add_structure_item(d, stype, parent) ==
    IF parent # None /\ ~IsIndex(ValueOf(parent), d.structure_items)
    THEN Result(d, "IndexOutOfBounds", NoVal)
    ELSE LET stritem_id == Len(d.structure_items)
             o == add_object(d, [kind |-> "DelayedStructItem", sid |-> stritem_id])
             d2 == [o.doc EXCEPT !.structure_items =
                        Append(@, [obj_id |-> o.val, stype |-> stype,
                                   parent |-> parent])]
         IN Result(d2, NoError, Id(Len(d2.structure_items) - 1))

\* PdfDocument::add_optional_content_group
add_optional_content_group(d, name) ==
    LET o == add_object(d, FullPDFObject("OCG", [Name |-> name]))
        d2 == [o.doc EXCEPT !.ocg_items = Append(@, o.val)]
    IN Result(d2, NoError, Id(Len(d2.ocg_items) - 1))

\* PdfDocument::ocg_object_number
ocg_object_number(d, id) == d.ocg_items[id + 1]

\* PdfDocument::add_outline (parent is an optional; -1 stands for the top)
\* add_outline that puts the new item in front of its siblings.
add_outline_prepending(d, dest, parent) ==
    LET cur_id == Len(d.outlines.items)
        par_id == IF parent = None THEN -1 ELSE ValueOf(parent)
        siblings == IF par_id \in DOMAIN d.outlines.children
                    THEN d.outlines.children[par_id] ELSE <<>>
        d2 == [d EXCEPT
                 !.outlines.parent = MapSet(@, cur_id, par_id),
                 !.outlines.children = MapSet(@, par_id, <<cur_id>> \o siblings),
                 !.outlines.items = Append(@, [dest |-> dest, parent |-> parent])]
    IN Result(d2, NoError, Id(cur_id))

\* PdfDocument::add_outline
add_outline(d, dest, parent) ==
    LET cur_id == Len(d.outlines.items)
        par_id == IF parent = None THEN -1 ELSE ValueOf(parent)
        siblings == IF par_id \in DOMAIN d.outlines.children
                    THEN d.outlines.children[par_id] ELSE <<>>
        d2 == [d EXCEPT
                 !.outlines.parent = MapSet(@, cur_id, par_id),
                 !.outlines.children = MapSet(@, par_id, Append(siblings, cur_id)),
                 !.outlines.items = Append(@, [dest |-> dest, parent |-> parent])]
    IN Result(d2, NoError, Id(cur_id))

\* PdfDocument::embed_file; load_file fails for a file that cannot be read.
embed_file(d, readable) ==
    IF ~readable
    THEN Result(d, "CouldNotOpenFile", NoVal)
    ELSE LET f == add_object(d, FullPDFObject("EmbeddedFile", [stream |-> "file"]))
             spec == add_object(f.doc, FullPDFObject("Filespec", [EF |-> f.val]))
             d2 == [spec.doc EXCEPT !.embedded_files =
                        Append(@, [filespec_obj |-> spec.val,
                                   contents_obj |-> f.val])]
         IN Result(d2, NoError, Id(Len(d2.embedded_files) - 1))

\* PdfDocument::get_builtin_font_id
get_builtin_font_id(d, font) ==
    IF font \in DOMAIN d.builtin_fonts
    THEN Result(d, NoError, Id(d.builtin_fonts[font]))
    ELSE LET o == add_object(d, FullPDFObject("Font", [BaseFont |-> font]))
             d2 == [o.doc EXCEPT !.font_objects =
                        Append(@, [font_file_obj |-> -1,
                                   font_descriptor_obj |-> -1,
                                   font_obj |-> o.val,
                                   font_index_tmp |-> -1])]
             fontid == Len(d2.font_objects) - 1
         IN Result([d2 EXCEPT !.builtin_fonts = MapSet(@, font, fontid)],
                   NoError, Id(fontid))

\* PdfDocument::add_lab_colorspace
add_lab_colorspace(d) ==
    LET o == add_object(d, FullPDFObject("Lab", [WhitePoint |-> "D50"]))
    IN Result(o.doc, NoError, Id(size(o.doc.document_objects) - 1))

\* ------------------------------------------------------------------------
\* PdfDocument: pages
\* ------------------------------------------------------------------------
\* The elements of a std::vector, and its back().
Elems(v) == {v[i] : i \in DOMAIN v}
back(v) == v[Len(v)]

\* A /SetOCGState action dictionary over the given OCG object numbers.
SetOCGState(state, ocgs, trans) ==
    [S |-> "SetOCGState", State |-> state, ocgs |-> ocgs, trans |-> trans]

NavNode(na, next, pa, prev) ==
    FullPDFObject("NavNode", [NA |-> na, Next |-> next, PA |-> pa, Prev |-> prev])

\* The navigation nodes without the closing node.
subnavigation_nodes_without_final(d, subnav, root_obj) ==
    [i \in 1..(Len(subnav) + 1) |->
        NavNode(Some(SetOCGState("OFF",
                    [k \in 1..Len(subnav) |-> ocg_object_number(d, subnav[k].id)],
                    FALSE)),
                Some(root_obj + i), None, None)]

\* The navigation nodes with the back links of the entries one entry too far.
subnavigation_nodes_back_off_by_one(d, subnav, root_obj) ==
    LET N == Len(subnav)
        first_obj == root_obj + 1
        all == [i \in 1..N |-> ocg_object_number(d, subnav[i].id)]
        root == NavNode(Some(SetOCGState("OFF", all, FALSE)), Some(root_obj + 1),
                        Some(SetOCGState("ON", all, FALSE)), Some(root_obj + 1 + N))
        node(i) ==
            NavNode(Some(SetOCGState("ON",
                                     <<ocg_object_number(d, subnav[i + 1].id)>>,
                                     subnav[i + 1].tr)),
                    Some(first_obj + i + 1),
                    IF i > 0
                    THEN Some(SetOCGState("OFF",
                                  <<ocg_object_number(d, subnav[i + 1].id)>>, FALSE))
                    ELSE None,
                    IF i > 0 THEN Some(first_obj + i) ELSE None)
        final == NavNode(None, None,
                         Some(SetOCGState("OFF",
                                  <<ocg_object_number(d, back(subnav).id)>>, FALSE)),
                         Some(first_obj + N - 1))
    IN <<root>> \o [i \in 1..N |-> node(i - 1)] \o <<final>>

\* The objects create_subnavigation builds when the table holds root_obj
\* entries: the root node, one node per entry, and the closing node.
subnavigation_nodes(d, subnav, root_obj) ==
    LET N == Len(subnav)
        first_obj == root_obj + 1
        all == [i \in 1..N |-> ocg_object_number(d, subnav[i].id)]
        root == NavNode(Some(SetOCGState("OFF", all, FALSE)), Some(root_obj + 1),
                        Some(SetOCGState("ON", all, FALSE)), Some(root_obj + 1 + N))
        node(i) ==
            NavNode(Some(SetOCGState("ON",
                                     <<ocg_object_number(d, subnav[i + 1].id)>>,
                                     subnav[i + 1].tr)),
                    Some(first_obj + i + 1),
                    IF i > 0
                    THEN Some(SetOCGState("OFF",
                                  <<ocg_object_number(d, subnav[i].id)>>, FALSE))
                    ELSE None,
                    IF i > 0 THEN Some(first_obj + i - 1) ELSE None)
        final == NavNode(None, None,
                         Some(SetOCGState("OFF",
                                  <<ocg_object_number(d, back(subnav).id)>>, FALSE)),
                         Some(first_obj + N - 1))
    IN <<root>> \o [i \in 1..N |-> node(i - 1)] \o <<final>>

\* add_object applied to each object of a list in turn.
RECURSIVE add_objects(_, _)
add_objects(d, objects) ==
    IF objects = <<>> THEN d
    ELSE add_objects(add_object(d, Head(objects)).doc, Tail(objects))

\* PdfDocument::create_subnavigation
create_subnavigation(d, subnav) ==
    LET root_obj == size(d.document_objects)
    IN [doc |-> add_objects(d, subnavigation_nodes(d, subnav, root_obj)),
        val |-> root_obj]

\* A re-use scan that finds nothing.
never_reused(use, ids) == FALSE

\* One re-use scan of add_page: some id of the call is a key of the map.
reused(use, ids) == \E a \in ids : a \in DOMAIN use

\* The scans with the structure items looked at first.
reuse_error_structures_first(d, fws, annots, structs) ==
    IF reused(d.structure_use, Elems(structs)) THEN "StructureReuse"
    ELSE IF reused(d.form_use, fws) \/ reused(d.annotation_use, annots)
    THEN "AnnotationReuse"
    ELSE NoError

\* The three re-use scans at the head of add_page, in the code's order.
reuse_error(d, fws, annots, structs) ==
    IF reused(d.form_use, fws) THEN "AnnotationReuse"
    ELSE IF reused(d.annotation_use, annots) THEN "AnnotationReuse"
    ELSE IF reused(d.structure_use, Elems(structs)) THEN "StructureReuse"
    ELSE NoError

\* The usage maps after a page took the given ids.
record_use(use, ids, page_object_num) ==
    [x \in (DOMAIN use) \cup ids |-> IF x \in ids THEN page_object_num ELSE use[x]]

\* The structure usage with the MCIDs of a page counted from one.
record_structure_use_from_one(use, structs, page_num) ==
    [x \in (DOMAIN use) \cup Elems(structs) |->
        IF x \in Elems(structs)
        THEN [page_num |-> page_num,
              mcid_num |-> CHOOSE j \in DOMAIN structs :
                               /\ structs[j] = x
                               /\ \A k \in DOMAIN structs :
                                      structs[k] = x => k <= j]
        ELSE use[x]]

\* structure_use after the loop at the end of add_page: a later occurrence
\* of an item in the list overwrites the entry of an earlier one.
record_structure_use(use, structs, page_num) ==
    [x \in (DOMAIN use) \cup Elems(structs) |->
        IF x \in Elems(structs)
        THEN [page_num |-> page_num,
              mcid_num |-> (CHOOSE j \in DOMAIN structs :
                               /\ structs[j] = x
                               /\ \A k \in DOMAIN structs :
                                      structs[k] = x => k <= j) - 1]
        ELSE use[x]]

\* PdfDocument::add_page
add_page(d, fws, annots, structs, transition, subnav) ==
    IF reuse_error(d, fws, annots, structs) # NoError
    THEN Result(d, reuse_error(d, fws, annots, structs), NoVal)
    ELSE
    LET resource == add_object(d, FullPDFObject("Resources", [stream |-> ""]))
        commands ==
            IF d.opts.compress_streams
            THEN add_object(resource.doc,
                            DeflatePDFObject("Contents", [stream |-> "commands"]))
            ELSE add_object(resource.doc,
                            FullPDFObject("Contents", [stream |-> "commands"]))
        nav == IF subnav # <<>>
               THEN create_subnavigation(commands.doc, subnav)
               ELSE [doc |-> commands.doc, val |-> -1]
        d3 == nav.doc
        p == [kind |-> "DelayedPage",
              page_num |-> Len(d.pages),
              used_form_widgets |-> fws,
              used_annotations |-> annots,
              transition |-> transition,
              subnav_root |-> IF subnav # <<>> THEN Some(nav.val) ELSE None,
              structparents |-> IF structs # <<>>
                                THEN Some(Len(d.structure_parent_tree_items))
                                ELSE None]
        d4 == IF structs # <<>>
              THEN [d3 EXCEPT !.structure_parent_tree_items = Append(@, structs)]
              ELSE d3
        page == add_object(d4, p)
        page_object_num == page.val
        d5 == [page.doc EXCEPT
                 !.form_use = record_use(@, fws, page_object_num),
                 !.annotation_use = record_use(@, annots, page_object_num),
                 !.structure_use = record_structure_use(@, structs, Len(d.pages)),
                 !.pages = Append(@, [resource_obj_num |-> resource.val,
                                      commands_obj_num |-> commands.val,
                                      page_obj_num |-> page_object_num])]
    IN Result(d5, NoError, NoVal)

\* ------------------------------------------------------------------------
\* PdfDocument: the catalog and the objects it synthesizes
\* ------------------------------------------------------------------------
\* The exception std::vector::at and std::map::at raise.
OutOfRange == "std::out_of_range"

\* PdfDocument::create_name_dict
create_name_dict(d) ==
    add_object(d, FullPDFObject("NameDict",
        [EmbeddedFiles |-> [i \in DOMAIN d.embedded_files |->
                               d.embedded_files[i].filespec_obj]]))

\* PdfDocument::create_structure_parent_tree; structure_items.at(sitem.id)
\* throws for an item id that was never created.
create_structure_parent_tree(d) ==
    LET entries == d.structure_parent_tree_items
    IN IF \E i \in DOMAIN entries : \E sitem \in Elems(entries[i]) :
              ~IsIndex(sitem, d.structure_items)
       THEN Result(d, OutOfRange, NoVal)
       ELSE LET t == add_object(d, FullPDFObject("ParentTree",
                        [Nums |-> [i \in DOMAIN entries |->
                                     [j \in DOMAIN entries[i] |->
                                        d.structure_items[entries[i][j] + 1].obj_id]]]))
            IN Result(t.doc, NoError, Id(t.val))

\* PdfDocument::create_structure_root_dict
create_structure_root_dict(d) ==
    LET rootobj == CHOOSE i \in 0..(Len(d.structure_items) - 1) :
                      /\ d.structure_items[i + 1].parent = None
                      /\ \A k \in 0..(i - 1) : d.structure_items[k + 1].parent # None
        o == add_object(d, FullPDFObject("StructTreeRoot",
                 [K |-> d.structure_items[rootobj + 1].obj_id,
                  ParentTree |-> ValueOf(d.structure_parent_tree_object),
                  ParentTreeNextKey |-> Len(d.structure_parent_tree_items)]))
    IN [o.doc EXCEPT !.structure_root_object = Some(o.val)]

\* The dictionary create_outlines writes for outline cur_id.
outline_item(d, cur_id, first_obj_num, catalog_obj_num) ==
    LET cur_obj == d.outlines.items[cur_id + 1]
        parent_id == d.outlines.parent[cur_id]
        siblings == d.outlines.children[parent_id]
        loc == CHOOSE j \in DOMAIN siblings : siblings[j] = cur_id
        has_children == cur_id \in DOMAIN d.outlines.children
        children == d.outlines.children[cur_id]
    IN FullPDFObject("Outline",
         [Dest |-> d.pages[cur_obj.dest + 1].page_obj_num,
          Prev |-> IF Len(siblings) > 1 /\ loc # 1
                   THEN Some(first_obj_num + siblings[loc - 1]) ELSE None,
          Next |-> IF Len(siblings) > 1 /\ loc + 1 <= Len(siblings)
                   THEN Some(first_obj_num + siblings[loc + 1]) ELSE None,
          First |-> IF has_children THEN Some(first_obj_num + Head(children))
                    ELSE None,
          Last |-> IF has_children THEN Some(first_obj_num + back(children))
                   ELSE None,
          Count |-> IF has_children THEN Some(-Len(children)) ELSE None,
          Parent |-> IF parent_id >= 0 THEN first_obj_num + parent_id
                     ELSE catalog_obj_num])

\* PdfDocument::create_outlines; pages.at(dest) throws for a destination
\* that is not a page, after the items before it were added.
create_outlines(d) ==
    LET first_obj_num == size(d.document_objects)
        n == Len(d.outlines.items)
        catalog_obj_num == first_obj_num + n
        bad == {i \in 0..(n - 1) : ~IsIndex(d.outlines.items[i + 1].dest, d.pages)}
        stop == IF bad = {} THEN n
                ELSE CHOOSE i \in bad : \A k \in bad : i <= k
        items == add_objects(d, [i \in 1..stop |->
                     outline_item(d, i - 1, first_obj_num, catalog_obj_num)])
        top_level == d.outlines.children[-1]
        root == add_object(items, FullPDFObject("Outlines",
                    [First |-> Some(first_obj_num + Head(top_level)),
                     Last |-> Some(first_obj_num + back(top_level)),
                     Count |-> Some(Len(top_level))]))
    IN IF bad # {} THEN Result(items, OutOfRange, NoVal)
       ELSE Result(root.doc, NoError, Id(root.val))

\* The catalog dictionary.
catalog_dict(d, outline, name, structure) ==
    FullPDFObject("Catalog",
        [Pages |-> d.pages_object,
         Outlines |-> outline,
         Names |-> name,
         StructTreeRoot |-> structure,
         Lang |-> d.opts.lang,
         MarkInfo |-> d.opts.is_tagged,
         OutputIntents |-> d.output_intent_object,
         AcroForm |-> IF DOMAIN d.form_use # {} THEN Some(d.form_widgets) ELSE None,
         OCProperties |-> IF d.ocg_items # <<>> THEN Some(d.ocg_items) ELSE None])

\* create_catalog with the catalog written before the objects it refers to.
create_catalog_first(d) ==
    LET c == add_object(d, catalog_dict(d, None, None, None))
        d1 == IF d.embedded_files # <<>> THEN create_name_dict(c.doc).doc ELSE c.doc
    IN Result([d1 EXCEPT !.state = "finalized"], NoError, NoVal)

\* PdfDocument::create_catalog
create_catalog(d) ==
    LET names == IF d.embedded_files # <<>> THEN create_name_dict(d)
                 ELSE [doc |-> d, val |-> -1]
        name == IF d.embedded_files # <<>> THEN Some(names.val) ELSE None
        outl == IF d.outlines.items # <<>> THEN create_outlines(names.doc)
                ELSE Result(names.doc, NoError, NoVal)
        outline == IF d.outlines.items # <<>> /\ outl.err = NoError
                   THEN Some(outl.val.id) ELSE None
    IN IF outl.err # NoError
       THEN Result([outl.doc EXCEPT !.state = "threw"], outl.err, NoVal)
       ELSE
       LET tree == IF d.structure_items # <<>>
                   THEN create_structure_parent_tree(outl.doc)
                   ELSE Result(outl.doc, NoError, NoVal)
       IN IF tree.err # NoError
          THEN Result([tree.doc EXCEPT !.state = "threw"], tree.err, NoVal)
          ELSE
          LET d3 == IF d.structure_items # <<>>
                    THEN create_structure_root_dict(
                             [tree.doc EXCEPT !.structure_parent_tree_object =
                                                  Some(tree.val.id)])
                    ELSE tree.doc
              structure == IF d.structure_items # <<>>
                           THEN d3.structure_root_object ELSE None
              c == add_object(d3, catalog_dict(d3, outline, name, structure))
          IN Result([c.doc EXCEPT !.state = "finalized"], NoError, NoVal)

\* ---- the font operations as steps of the program
Ready == ~aborted /\ doc.state = "ready"

DocStep(op, r) ==
    /\ doc' = r.doc
    /\ ret' = [op |-> op, err |-> r.err, val |-> r.val]
    /\ UNCHANGED <<draw_vars, aborted>>

FontIds == {f \in 0..(MaxFonts - 1) : f < Len(doc.fonts)}

\* Codepoints asked for one at a time, and runs of text (first codepoint,
\* length) asked for through render_glyphs.
SingleCodepoints == {32, 65535}
GlyphRuns == {<<33, 256>>, <<280, 31>>}

LoadFont ==
    /\ Ready
    /\ Len(doc.fonts) < MaxFonts
    /\ \E fname \in FontFiles : DocStep("load_font", load_font(doc, fname))

GetSubsetGlyph ==
    /\ Ready
    /\ \E fid \in FontIds, glyph \in SingleCodepoints :
          DocStep("get_subset_glyph",
                  [get_subset_glyph(doc, fid, glyph) EXCEPT
                      !.val = [call |-> <<fid, glyph>>, result |-> @]])

RenderGlyphs ==
    /\ Ready
    /\ \E fid \in FontIds, run \in GlyphRuns :
          DocStep("render_glyphs", render_glyphs(doc, fid, run[1], run[2]))

PadSubsetFonts ==
    /\ Ready
    /\ LET r == pad_subset_fonts_from(doc.fonts, 1)
       IN /\ doc' = [doc EXCEPT !.fonts = r.fonts]
          /\ aborted' = r.aborted
          /\ ret' = [op |-> "pad_subset_fonts", err |-> NoError, val |-> NoVal]
    /\ UNCHANGED draw_vars

\* ---- the page operations as steps of the program
\* What a draw context hands to add_page: the form widgets and annotations
\* it used (sets) and the structure items it marked (in order, each once),
\* its transition, and its sub-page navigation list over the created OCGs.
PageAttachments ==
    {[fws |-> {}, annots |-> {}, structs |-> <<>>],
     [fws |-> {0}, annots |-> {}, structs |-> <<>>],
     [fws |-> {}, annots |-> {0}, structs |-> <<>>],
     [fws |-> {}, annots |-> {}, structs |-> <<0>>],
     [fws |-> {0}, annots |-> {0}, structs |-> <<0>>],
     [fws |-> {1}, annots |-> {1, 2}, structs |-> <<2, 1>>]}
PageTransitions == {None, Some("Split")}
PageSubnavs ==
    {<<>>} \cup {[i \in 1..n |-> [id |-> i - 1, tr |-> (i = 1)]] :
                    n \in 1..Len(doc.ocg_items)}

AddOptionalContentGroup ==
    /\ Ready
    /\ Len(doc.ocg_items) < MaxOcgs
    /\ DocStep("add_optional_content_group",
               add_optional_content_group(doc, "layer"))

AddPageFrom(attachments, transitions, subnavs) ==
    /\ Ready
    /\ Len(doc.pages) < MaxPages
    /\ \E a \in attachments, transition \in transitions, subnav \in subnavs :
          DocStep("add_page",
                  add_page(doc, a.fws, a.annots, a.structs, transition, subnav))

AddPage == AddPageFrom(PageAttachments, PageTransitions, PageSubnavs)

\* Pages without annotations, widgets, transition or navigation list, with
\* or without a marked structure item.
AddSimplePage ==
    AddPageFrom({a \in PageAttachments : a.fws = {} /\ a.annots = {}},
                {None}, {<<>>})

\* Optional content groups for navigation lists of up to MaxNavEntries
\* entries, and pages whose navigation list names the first n groups in the
\* order of creation or in the reverse order.
AddNavOcg ==
    /\ Ready
    /\ Len(doc.ocg_items) < MaxNavEntries
    /\ DocStep("add_optional_content_group",
               add_optional_content_group(doc, "layer"))

NavLists ==
    {[i \in 1..n |-> [id |-> i - 1, tr |-> (i = 1)]] : n \in 1..Len(doc.ocg_items)}
    \cup {[i \in 1..n |-> [id |-> n - i, tr |-> FALSE]] : n \in 1..Len(doc.ocg_items)}

AddNavPage ==
    AddPageFrom({[fws |-> {}, annots |-> {}, structs |-> <<>>]}, {None},
                {<<>>} \cup NavLists)

NextNav ==
    \/ construct
    \/ AddNavOcg
    \/ AddNavPage

AddPlainPage ==
    AddPageFrom({[fws |-> {}, annots |-> {}, structs |-> <<>>]}, {None}, {<<>>})

NextPage ==
    \/ construct
    \/ AddOptionalContentGroup
    \/ AddPage

\* ---- the remaining document operations as steps of the program
BuiltinFonts == {"Helvetica", "Courier"}
StructureTypes == {"P"}

\* The objects added since construction; the object-adding steps of the
\* whole-document specification stop at MaxAddedObjects of them.
AddedObjects == Len(doc.issued) - Len(init(NewDocument(doc.opts, doc.cm)).doc.issued)
TableRoom == Ready /\ AddedObjects < MaxAddedObjects

AddFormXObject ==
    /\ Ready
    /\ DocStep("add_form_xobject", add_form_xobject(doc))

AddPattern ==
    /\ Ready
    /\ DocStep("add_pattern", add_pattern(doc, DrawContext))

AddTransparencyGroup ==
    /\ Ready
    /\ DocStep("add_transparency_group", add_transparency_group(doc, DrawContext))

CreateAnnotation ==
    /\ Ready
    /\ \E has_rect \in BOOLEAN :
          DocStep("create_annotation", create_annotation(doc, has_rect))

CreateFormCheckbox ==
    /\ Ready
    /\ \E onstate \in -1..Len(doc.form_xobjects), offstate \in -1..Len(doc.form_xobjects) :
          DocStep("create_form_checkbox",
                  create_form_checkbox(doc, onstate, offstate))

AddStructureItem ==
    /\ Ready
    /\ \E stype \in StructureTypes,
          parent \in {None} \cup {Some(i) : i \in 0..Len(doc.structure_items)} :
          DocStep("add_structure_item", add_structure_item(doc, stype, parent))

AddOutlineWithin(limit, dests) ==
    /\ Ready
    /\ Len(doc.outlines.items) < limit
    /\ \E dest \in dests,
          parent \in {None} \cup {Some(i) : i \in 0..(Len(doc.outlines.items) - 1)} :
          DocStep("add_outline", add_outline(doc, dest, parent))

AddOutline == AddOutlineWithin(MaxOutlines, 0..(MaxPages - 1))

\* Outlines of a tree of up to MaxOutlineTree items, each pointing at the
\* first or the second page.
AddOutlineItem == AddOutlineWithin(MaxOutlineTree, {0, 1})

EmbedFile ==
    /\ Ready
    /\ \E readable \in BOOLEAN : DocStep("embed_file", embed_file(doc, readable))

GetBuiltinFontId ==
    /\ Ready
    /\ \E font \in BuiltinFonts :
          DocStep("get_builtin_font_id", get_builtin_font_id(doc, font))

AddLabColorspace ==
    /\ Ready
    /\ DocStep("add_lab_colorspace", add_lab_colorspace(doc))

CreateCatalog ==
    /\ Ready
    /\ DocStep("create_catalog", create_catalog(doc))

\* Every object-adding operation, while the table has room.
NextDoc ==
    \/ construct
    \/ TableRoom /\ AddFormXObject
    \/ TableRoom /\ CreateAnnotation
    \/ TableRoom /\ CreateFormCheckbox
    \/ TableRoom /\ AddStructureItem
    \/ TableRoom /\ EmbedFile
    \/ TableRoom /\ GetBuiltinFontId
    \/ TableRoom /\ AddLabColorspace
    \/ TableRoom /\ AddOptionalContentGroup
    \/ TableRoom /\ LoadFont
    \/ TableRoom /\ AddPage
    \/ doc.outlines.items = <<>> /\ AddOutline
    \/ CreateCatalog

\* Pages, an outline tree over them, and the catalog.
NextOutline ==
    \/ construct
    \/ AddPlainPage
    \/ AddOutlineItem
    \/ CreateCatalog

\* The operations whose records create_catalog turns into objects.
NextCatalog ==
    \/ construct
    \/ Len(doc.embedded_files) < MaxEmbeddedFiles /\ EmbedFile
    \/ Len(doc.structure_items) < MaxStructureItems /\ AddStructureItem
    \/ AddOutline
    \/ AddSimplePage
    \/ CreateCatalog

NextFont ==
    \/ construct
    \/ LoadFont
    \/ GetSubsetGlyph
    \/ RenderGlyphs
    \/ PadSubsetFonts

NextDraw ==
    \/ \E dtype \in DrawStateType : indent(dtype) /\ UNCHANGED <<guards, ctx>>
    \/ \E dtype \in DrawStateType : dedent(dtype) /\ UNCHANGED <<guards, ctx>>

\* A drawing routine that opens and closes states directly and through
\* scoped guards; a guard is destroyed when its scope is left, innermost first.
NextGuard ==
    \/ \E dtype \in DrawStateType :
          indent(dtype) /\ guards' = [guards EXCEPT !.ended = None] /\ UNCHANGED ctx
    \/ \E dtype \in DrawStateType :
          dedent(dtype) /\ guards' = [guards EXCEPT !.ended = None] /\ UNCHANGED ctx
    \/ push_gstate
    \/ GstatePopper_destroy

\* ---- ICC profiles and images as steps of the program
IccFiles ==
    {[readable |-> TRUE, contents |-> "srgb.icc", num_channels |-> 3],
     [readable |-> TRUE, contents |-> "fogra39.icc", num_channels |-> 4],
     [readable |-> FALSE, contents |-> "", num_channels |-> 0]}

RasterImages ==
    LET rgb == [w |-> 1, h |-> 1, pixels |-> "px", alpha |-> "",
                icc_profile |-> "", cs |-> "DeviceRGB"]
    IN {rgb,
        [rgb EXCEPT !.icc_profile = "srgb.icc"],
        [rgb EXCEPT !.icc_profile = "srgb.icc", !.alpha = "a"],
        [rgb EXCEPT !.w = 0]}

\* A step whose assert(!existing) fails either stops the process (a build
\* with assertions) or goes on (a build with NDEBUG).
AssertingStep(op, r) ==
    \/ DocStep(op, r)
    \/ /\ r.assert_failed
       /\ aborted' = TRUE
       /\ UNCHANGED <<doc, ret, draw_vars>>

LoadIccFile ==
    /\ Ready
    /\ \E file \in IccFiles : AssertingStep("load_icc_file", load_icc_file(doc, file))

AddImage ==
    /\ Ready
    /\ \E image \in RasterImages, is_mask \in BOOLEAN :
          AssertingStep("add_image", add_image(doc, image, is_mask))

NextIcc ==
    \/ construct
    \/ TableRoom /\ LoadIccFile
    \/ TableRoom /\ AddImage

\* A draw context issues its operators and is then handed to the document;
\* the context draws up to MaxCtxOpens opens before it is handed over.
NextPattern ==
    \/ construct
    \/ \E dtype \in DrawStateType :
          /\ doc.state = "unconstructed" \/ AddedObjects = 0
          /\ SumOver(opens) < MaxCtxOpens
          /\ indent(dtype) /\ UNCHANGED <<guards, ctx>>
    \/ \E dtype \in DrawStateType :
          /\ doc.state = "unconstructed" \/ AddedObjects = 0
          /\ dedent(dtype) /\ UNCHANGED <<guards, ctx>>
    \/ TableRoom /\ AddPattern
    \/ TableRoom /\ AddTransparencyGroup

NoRet == [op |-> NoValue, err |-> NoError, val |-> NoVal]

DefaultOpts ==
    [output_colorspace |-> "DeviceRGB", subtype |-> NoValue,
     intent_condition_identifier |-> "", compress_streams |-> FALSE,
     lang |-> "", is_tagged |-> FALSE]

NoProfiles == [rgb |-> "", gray |-> "", cmyk |-> ""]

InitD ==
    /\ InitDraw
    /\ aborted = FALSE
    /\ doc = NewDocument(DefaultOpts, NoProfiles)
    /\ ret = NoRet

\* The page operations run with and without stream compression.
InitPage ==
    /\ InitDraw
    /\ aborted = FALSE
    /\ \E c \in BOOLEAN :
          doc = NewDocument([DefaultOpts EXCEPT !.compress_streams = c], NoProfiles)
    /\ ret = NoRet

SpecPage == InitPage /\ [][NextPage]_vars

\* The whole-document operations run for a plain RGB document, a CMYK PDF/X
\* document with an output intent, and a configuration init rejects.
DocOptions ==
    {DefaultOpts,
     [DefaultOpts EXCEPT !.output_colorspace = "DeviceCMYK", !.subtype = "PDFX",
                         !.intent_condition_identifier = "FOGRA39",
                         !.compress_streams = TRUE],
     [DefaultOpts EXCEPT !.subtype = "PDFA"]}

DocProfiles == [rgb |-> "", gray |-> "", cmyk |-> "fogra39.icc"]

InitDoc ==
    /\ InitDraw
    /\ aborted = FALSE
    /\ \E o \in DocOptions : doc = NewDocument(o, DocProfiles)
    /\ ret = NoRet

SpecDoc == InitDoc /\ [][NextDoc]_vars

SpecCatalog == InitD /\ [][NextCatalog]_vars

\* Draw contexts of this and of another document, of each kind.
DrawContextTypes == {"CAPY_DC_PAGE", "CAPY_DC_COLOR_TILING", "CAPY_DC_TRANSPARENCY_GROUP"}

InitPattern ==
    /\ dstate_stack = <<>>
    /\ ind = <<>>
    /\ draw_ret = NoValue
    /\ opens = [k \in DrawStateType |-> 0]
    /\ closes = [k \in DrawStateType |-> 0]
    /\ guards = [live |-> <<>>, ended |-> None]
    /\ ctx \in [doc : {"this", "other"}, context_type : DrawContextTypes]
    /\ aborted = FALSE
    /\ doc = NewDocument(DefaultOpts, NoProfiles)
    /\ ret = NoRet

SpecPattern == InitPattern /\ [][NextPattern]_vars

\* Every configuration construct can be given: the output colorspace, the
\* subtype (unset, PDF/X, PDF/A), the intent identifier (empty or not) and,
\* per colorspace, whether the colour converter holds a profile.
ConstructOptions ==
    {[DefaultOpts EXCEPT !.output_colorspace = cs, !.subtype = st,
                         !.intent_condition_identifier = ident] :
        cs \in {"DeviceRGB", "DeviceGray", "DeviceCMYK"},
        st \in {NoValue, "PDFX", "PDFA"},
        ident \in {"", "FOGRA39"}}

ConstructProfiles ==
    [rgb : {"", "srgb.icc"}, gray : {"", "gray.icc"}, cmyk : {"", "fogra39.icc"}]

InitConstruct ==
    /\ InitDraw
    /\ aborted = FALSE
    /\ \E o \in ConstructOptions, cm \in ConstructProfiles : doc = NewDocument(o, cm)
    /\ ret = NoRet

NextConstruct == construct

SpecConstruct == InitConstruct /\ [][NextConstruct]_vars

SpecNav == InitD /\ [][NextNav]_vars

SpecOutline == InitD /\ [][NextOutline]_vars

SpecIcc == InitDoc /\ [][NextIcc]_vars

SpecGuard == InitD /\ [][NextGuard]_vars

SpecDraw == InitD /\ [][NextDraw]_vars

SpecFont == InitD /\ [][NextFont]_vars

\* Number of entries of kind k in the draw-state stack.
DepthOf(k) == Cardinality({i \in 1..Len(dstate_stack) : dstate_stack[i] = k})

\* C10: the successful draw-state operations are properly nested: for each
\* kind (q/Q = SaveState, BT/ET = Text, BMC|BDC/EMC = MarkedContent) the
\* number of stack entries of that kind equals its successful opens minus
\* its successful closes; hence with an empty stack the counts are equal.
C10_BalancedNesting ==
    /\ \A k \in DrawStateType : DepthOf(k) = opens[k] - closes[k]
    /\ (dstate_stack = <<>> => \A k \in DrawStateType : opens[k] = closes[k])

\* C10 witness: every kind was opened and closed and the stack is empty again.
C10_Witness ==
    /\ dstate_stack = <<>>
    /\ \A k \in DrawStateType : opens[k] >= 1 /\ closes[k] = opens[k]
    /\ draw_ret = "ok"


\* ------------------------------------------------------------------------
\* Draw state stack: opening and closing (C11, C12)
\* ------------------------------------------------------------------------
MarkedContentOpen == \E i \in 1..Len(dstate_stack) : dstate_stack[i] = "MarkedContent"

MarkedContentCount ==
    Cardinality({i \in 1..Len(dstate_stack) : dstate_stack[i] = "MarkedContent"})

\* What a call of indent(dtype) does to the stack and the indentation.
IndentOutcome(dtype) ==
    IF dtype = "MarkedContent" /\ MarkedContentOpen
    THEN /\ draw_ret' = "NestedBMC"
         /\ dstate_stack' = dstate_stack
         /\ ind' = ind
    ELSE /\ draw_ret' = "ok"
         /\ dstate_stack' = Append(dstate_stack, dtype)
         /\ ind' = ind \o <<" ", " ">>

\* C11: opening marked content fails with NestedBMC exactly when a
\* MarkedContent entry is anywhere in the stack, also below SaveState or Text
\* entries; the failed call leaves the stack and the indentation unchanged;
\* opening SaveState or Text is never rejected; the stack never holds two
\* MarkedContent entries.
C11_NestedMarkedContentRejected ==
    /\ [][\A dtype \in DrawStateType : indent(dtype) => IndentOutcome(dtype)]_vars
    /\ [](MarkedContentCount <= 1)

\* C11 witness: a marked-content open was rejected while the open
\* MarkedContent entry lies below a SaveState and a Text entry.
C11_Witness ==
    /\ draw_ret = "NestedBMC"
    /\ Len(dstate_stack) >= 3
    /\ dstate_stack[1] = "MarkedContent"
    /\ dstate_stack[Len(dstate_stack)] # "MarkedContent"
    /\ \E i \in 1..Len(dstate_stack) : dstate_stack[i] = "SaveState"
    /\ \E i \in 1..Len(dstate_stack) : dstate_stack[i] = "Text"

\* What a call of dedent(dtype) does to the stack and the indentation.
DedentOutcome(dtype) ==
    IF dstate_stack = <<>> \/ dstate_stack[Len(dstate_stack)] # dtype
    THEN /\ draw_ret' = "DrawStateEndMismatch"
         /\ dstate_stack' = dstate_stack
         /\ ind' = ind
         /\ aborted' = aborted
    ELSE /\ draw_ret' = "ok"
         /\ dstate_stack' = SubSeq(dstate_stack, 1, Len(dstate_stack) - 1)
         /\ Len(ind) >= 2
         /\ ind' = SubSeq(ind, 1, Len(ind) - 2)
         /\ aborted' = aborted

\* C12: a closing operation fails with DrawStateEndMismatch when the stack is
\* empty or its top entry is of another kind, leaving the stack and the
\* indentation unchanged; otherwise it pops exactly the top entry and removes
\* exactly two indentation characters.
C12_CloseMatchesTop ==
    [][\A dtype \in DrawStateType : dedent(dtype) => DedentOutcome(dtype)]_vars

\* C12 witness: a close was rejected on a non-empty stack after an earlier
\* close had succeeded.
C12_Witness ==
    /\ draw_ret = "DrawStateEndMismatch"
    /\ dstate_stack # <<>>
    /\ SumOver(closes) >= 1
    /\ Len(ind) = 2 * Len(dstate_stack)


\* ------------------------------------------------------------------------
\* The scoped q/Q guard (C13)
\* ------------------------------------------------------------------------
\* C13: after a guard's destruction the draw-state stack equals the
\* stack before its push_gstate, whatever was issued in between, also when a
\* BT or a BMC/BDC opened inside the guarded span was left unclosed.
C13_GuardRestoresStack ==
    guards.ended # None => dstate_stack = ValueOf(guards.ended)

\* ------------------------------------------------------------------------
\* Patterns and transparency groups built from a draw context (C14, C15)
\* ------------------------------------------------------------------------
ContextOps == {"add_pattern", "add_transparency_group"}

\* The objects of the table that were built from a draw context.
ContextObjects ==
    {i \in 1..Len(doc.document_objects) :
        /\ doc.document_objects[i].kind = "FullPDFObject"
        /\ doc.document_objects[i].tag \in {"Pattern", "TransparencyGroup"}}

\* The errors of the checks that are not about the claim at hand.
OtherRejections == {"InvalidDrawContextType", "UnclosedMarkedContent"}

\* C14: both add_pattern and add_transparency_group reject a draw context
\* that belongs to another document: the call fails with
\* IncorrectDocumentForObject (or, for a context that is of the wrong kind or
\* has open marked content as well, with the error of that check) and appends
\* no object to this document's table.
C14_ForeignContextRejected ==
    /\ \A i \in ContextObjects : doc.document_objects[i].d.ctx.doc = "this"
    /\ (ret.op \in ContextOps /\ ctx.doc # "this")
          => ret.err \in {"IncorrectDocumentForObject"} \cup OtherRejections

\* C15: add_pattern and add_transparency_group never install an object built
\* from a draw context whose draw-state stack is non-empty (an unclosed q or
\* BT): finalizing such a context fails with DrawStateEndMismatch (or, for a
\* context of the wrong document or kind or with open marked content, with
\* the error of that check).
C15_UnclosedContextRejected ==
    /\ \A i \in ContextObjects : doc.document_objects[i].d.ctx.dstate_stack = <<>>
    /\ (ret.op \in ContextOps /\ has_unclosed_state(DrawContext))
          => ret.err \in {"DrawStateEndMismatch", "IncorrectDocumentForObject"}
                         \cup OtherRejections

\* ------------------------------------------------------------------------
\* ICC profiles (C16)
\* ------------------------------------------------------------------------
\* The bytes held by the stream object of profile i (counted from 1).
StoredBytes(i) == ObjAt(doc, doc.icc_profiles[i].stream_num).d.stream

IccStreamObjects ==
    {n \in 1..(size(doc.document_objects) - 1) :
        /\ ObjAt(doc, n).kind = "DeflatePDFObject"
        /\ ObjAt(doc, n).tag = "ICCStream"}

\* C16: after init and any sequence of load_icc_file calls and add_image
\* calls whose image carries an embedded ICC profile, icc_profiles never holds
\* two entries whose stored stream bytes are equal (identical bytes have one
\* IccId), and registering bytes that are already stored appends no object:
\* no two stream objects of the table hold the same profile bytes.
C16_ProfilesStoredOnce ==
    doc.state = "ready" =>
        /\ \A i, j \in 1..Len(doc.icc_profiles) :
              StoredBytes(i) = StoredBytes(j) => i = j
        /\ \A m, n \in IccStreamObjects :
              ObjAt(doc, m).d.stream = ObjAt(doc, n).d.stream => m = n

\* ------------------------------------------------------------------------
\* Construction (C17)
\* ------------------------------------------------------------------------
\* The profile the colour converter holds for the chosen output colorspace.
OutputProfileBytes ==
    CASE doc.opts.output_colorspace = "DeviceRGB" -> doc.cm.rgb
      [] doc.opts.output_colorspace = "DeviceGray" -> doc.cm.gray
      [] doc.opts.output_colorspace = "DeviceCMYK" -> doc.cm.cmyk

OutputIntentObjects ==
    {i \in 1..Len(doc.document_objects) :
        /\ doc.document_objects[i].kind = "FullPDFObject"
        /\ doc.document_objects[i].tag = "OutputIntent"}

\* C17: construct fails with OutputProfileMissing when the output colorspace
\* is DeviceCMYK and no CMYK profile is supplied, or when a subtype is set and
\* there is no profile for the chosen colorspace; with MissingIntentIdentifier
\* when a subtype is set, the profile exists and the identifier is empty; it
\* succeeds in every other configuration, and then an output-intent object
\* exists exactly when a subtype is set.
C17_ConstructOutcome ==
    ret.op = "construct" =>
        LET subtype_set == doc.opts.subtype # NoValue
            no_profile == OutputProfileBytes = ""
        IN  /\ ret.err =
                  IF (doc.opts.output_colorspace = "DeviceCMYK" /\ no_profile)
                     \/ (subtype_set /\ no_profile)
                  THEN "OutputProfileMissing"
                  ELSE IF subtype_set /\ doc.opts.intent_condition_identifier = ""
                  THEN "MissingIntentIdentifier"
                  ELSE NoError
            /\ (ret.err = NoError) = (doc.state = "ready")
            /\ doc.state = "ready" =>
                  /\ (doc.output_intent_object # None) = subtype_set
                  /\ (OutputIntentObjects # {}) = subtype_set
                  /\ subtype_set =>
                        OutputIntentObjects = {ValueOf(doc.output_intent_object) + 1}

\* C17 witness: a gray PDF/A document was constructed with its output intent.
C17_Witness ==
    /\ ret.op = "construct"
    /\ ret.err = NoError
    /\ doc.opts.output_colorspace = "DeviceGray"
    /\ doc.opts.subtype = "PDFA"
    /\ doc.output_intent_object # None

\* ------------------------------------------------------------------------
\* Font subsets (C7, C8, C9)
\* ------------------------------------------------------------------------
\* The subsets of font fid (counted from 0) in a document.
SubsetsOf(d, fid) == d.fonts[fid + 1].subsets

\* A step that is a single successful get_subset_glyph call.
GlyphCallStep ==
    /\ GetSubsetGlyph
    /\ ret'.op = "get_subset_glyph"
    /\ ret'.err = NoError

\* What C7 says of a successful call for a codepoint the font does not hold.
NewGlyphPlaced(fid, glyph) ==
    LET old == SubsetsOf(doc, fid)
        new == SubsetsOf(doc', fid)
        p == Len(old) - 1
        r == ret'.val.result
    IN IF Len(old[p + 1]) < 256
       THEN /\ new = [old EXCEPT ![p + 1] = Append(@, glyph)]
            /\ r.subset_id = p
            /\ r.glyph_id = Len(old[p + 1])
       ELSE /\ new = Append(old, <<glyph>>)
            /\ r.subset_id = p + 1
            /\ r.glyph_id = 0

\* C7: in every font every subset holds at most 256 entries; a codepoint not
\* yet in the font is appended to the last subset while that subset has fewer
\* than 256 entries, and the first new codepoint asked for when the last
\* subset p holds 256 entries opens subset p+1 and is returned as (p+1, 0).
C7_SubsetsBounded ==
    /\ [](\A f \in 1..Len(doc.fonts) :
            \A s \in 1..Len(doc.fonts[f].subsets) :
                Len(doc.fonts[f].subsets[s]) <= 256)
    /\ [][GlyphCallStep =>
            LET fid == ret'.val.call[1]
                glyph == ret'.val.call[2]
            IN find_glyph(SubsetsOf(doc, fid), glyph) = None
                   => NewGlyphPlaced(fid, glyph)]_vars

\* C7 witness: a call for a new codepoint found the last subset full, opened
\* the next subset and returned its first slot.
C7_Witness ==
    /\ ret.op = "get_subset_glyph"
    /\ ret.err = NoError
    /\ ret.val.result.subset_id = 1
    /\ ret.val.result.glyph_id = 0
    /\ Len(SubsetsOf(doc, ret.val.call[1])) = 2
    /\ Len(SubsetsOf(doc, ret.val.call[1])[1]) = 256
    /\ SubsetsOf(doc, ret.val.call[1])[2] = <<ret.val.call[2]>>

\* Codepoints whose slot is followed from step to step.
TrackedCodepoints == SingleCodepoints \cup {33, 280, 288, 310}

C9_PaddingAlwaysCompletes ==
    [][PadSubsetFonts =>
          /\ ~aborted'
          /\ \A f \in 1..Len(doc.fonts) :
                LET old == doc.fonts[f].subsets
                    new == doc'.fonts[f].subsets
                    last == Len(old)
                IN IF Len(old[last]) <= SPACE
                   THEN /\ Len(new) = Len(old)
                        /\ Len(new[last]) = SPACE + 1
                        /\ new[last][SPACE + 1] = SPACE
                   ELSE new = old
      ]_vars


\* ------------------------------------------------------------------------
\* Pages
\* ------------------------------------------------------------------------
\* The numbers of the DelayedPage entries of the object table.
PageObjs(d) ==
    {n \in 1..(size(d.document_objects) - 1) : ObjAt(d, n).kind = "DelayedPage"}

\* The entries of structure_parent_tree_items that hold structure item s.
ParentTreeEntriesOf(d, s) ==
    {k \in DOMAIN d.structure_parent_tree_items :
        s \in Elems(d.structure_parent_tree_items[k])}

\* C2: after any sequence of add_page calls, successful or failed, no
\* annotation, form widget or structure item is recorded for more than one
\* page: no two DelayedPage entries list the same annotation or form widget,
\* every key of annotation_use and form_use maps to the one DelayedPage that
\* lists it, and every key of structure_use sits in exactly one entry of the
\* structure parent tree, the one of the page the map names.
C2_UniqueUse ==
    LET P == PageObjs(doc)
    IN /\ \A m \in P, n \in P :
            m # n => /\ ObjAt(doc, m).used_annotations
                           \cap ObjAt(doc, n).used_annotations = {}
                     /\ ObjAt(doc, m).used_form_widgets
                           \cap ObjAt(doc, n).used_form_widgets = {}
       /\ \A a \in DOMAIN doc.annotation_use :
            /\ doc.annotation_use[a] \in P
            /\ a \in ObjAt(doc, doc.annotation_use[a]).used_annotations
       /\ \A w \in DOMAIN doc.form_use :
            /\ doc.form_use[w] \in P
            /\ w \in ObjAt(doc, doc.form_use[w]).used_form_widgets
       /\ \A n \in P :
            /\ ObjAt(doc, n).used_annotations \subseteq DOMAIN doc.annotation_use
            /\ ObjAt(doc, n).used_form_widgets \subseteq DOMAIN doc.form_use
       /\ \A s \in DOMAIN doc.structure_use :
            /\ Cardinality(ParentTreeEntriesOf(doc, s)) = 1
            /\ doc.structure_use[s].page_num < Len(doc.pages)
            /\ \A k \in ParentTreeEntriesOf(doc, s) :
                  ObjAt(doc, doc.pages[doc.structure_use[s].page_num + 1]
                                .page_obj_num).structparents = Some(k - 1)
       /\ \A k \in DOMAIN doc.structure_parent_tree_items :
            Elems(doc.structure_parent_tree_items[k]) \subseteq DOMAIN doc.structure_use

\* Two pages that both carry annotations, a form widget and structure items.
C2_Witness ==
    /\ Len(doc.pages) = 2
    /\ DOMAIN doc.annotation_use = {0, 1, 2}
    /\ DOMAIN doc.form_use = {0, 1}
    /\ DOMAIN doc.structure_use = {0, 1, 2}
    /\ doc.annotation_use[0] # doc.annotation_use[1]

\* The calls of add_page the model makes, as (attachments, transition,
\* navigation list) triples.
PageCalls == PageAttachments \X PageTransitions \X PageSubnavs

AnnotationReused(a) ==
    \/ \E w \in a.fws : w \in DOMAIN doc.form_use
    \/ \E x \in a.annots : x \in DOMAIN doc.annotation_use

StructureReused(a) == \E s \in Elems(a.structs) : s \in DOMAIN doc.structure_use

CallOf(c) == add_page(doc, c[1].fws, c[1].annots, c[1].structs, c[2], c[3])

\* A failed add_page leaves the tables it guards as they were.
FailedPageKeepsState ==
    (ret'.op = "add_page" /\ ret'.err # NoError /\ Ready)
        => /\ doc'.document_objects = doc.document_objects
           /\ doc'.pages = doc.pages
           /\ doc'.structure_parent_tree_items = doc.structure_parent_tree_items
           /\ doc'.form_use = doc.form_use
           /\ doc'.annotation_use = doc.annotation_use
           /\ doc'.structure_use = doc.structure_use

\* C3 as stated: add_page with a used annotation or form widget fails with
\* AnnotationReuse, and with a used structure item fails with StructureReuse;
\* each failure leaves the tables unchanged.
C3_ReuseErrors ==
    /\ [](Ready => \A c \in PageCalls :
            /\ AnnotationReused(c[1]) => CallOf(c).err = "AnnotationReuse"
            /\ StructureReused(c[1]) => CallOf(c).err = "StructureReuse")
    /\ [][FailedPageKeepsState]_vars

\* C3, amended: add_page with a used annotation or form widget fails with
\* AnnotationReuse; with a used structure item and no used annotation or
\* form widget it fails with StructureReuse; a call that re-uses none of its
\* ids succeeds; and each failure leaves the object table, the page list,
\* structure_parent_tree_items and the three usage maps unchanged.
C3_ReuseErrorsInScanOrder ==
    /\ [](Ready => \A c \in PageCalls :
            /\ AnnotationReused(c[1]) => CallOf(c).err = "AnnotationReuse"
            /\ (StructureReused(c[1]) /\ ~AnnotationReused(c[1]))
                  => CallOf(c).err = "StructureReuse"
            /\ (~StructureReused(c[1]) /\ ~AnnotationReused(c[1]))
                  => CallOf(c).err = NoError
            /\ CallOf(c).err # NoError => CallOf(c).doc = doc)
    /\ [][FailedPageKeepsState]_vars

\* A failed call on a document whose page holds annotation 0 and structure
\* item 0, so that the profile re-using both was among the calls.
C3_Witness ==
    /\ ret.op = "add_page"
    /\ ret.err = "AnnotationReuse"
    /\ 0 \in DOMAIN doc.annotation_use
    /\ 0 \in DOMAIN doc.structure_use

\* The objects a step appended to the table.
Appended == SubSeq(doc'.document_objects, size(doc.document_objects) + 1,
                   size(doc'.document_objects))

PageAdded ==
    /\ ret'.op = "add_page"
    /\ ret'.err = NoError
    /\ Len(doc'.pages) = Len(doc.pages) + 1

IsResources(o) == o.kind = "FullPDFObject" /\ o.tag = "Resources"

IsContents(o) ==
    /\ o.kind = IF doc.opts.compress_streams THEN "DeflatePDFObject"
                ELSE "FullPDFObject"
    /\ o.tag = "Contents"

IsNavNode(o) == o.kind = "FullPDFObject" /\ o.tag = "NavNode"

OldEntriesKept ==
    /\ size(doc'.document_objects) >= size(doc.document_objects)
    /\ SubSeq(doc'.document_objects, 1, size(doc.document_objects))
          = doc.document_objects

\* C4 as stated: a successful add_page appends exactly the resource
\* dictionary, the content stream and the DelayedPage, in that order.
C4_ThreeObjectsPerPage ==
    [][PageAdded =>
         /\ OldEntriesKept
         /\ Len(Appended) = 3
         /\ IsResources(Appended[1])
         /\ IsContents(Appended[2])
         /\ Appended[3].kind = "DelayedPage"]_vars

\* C4, amended: a successful add_page appends the resource dictionary, the
\* content stream (DeflatePDFObject when compress_streams is set,
\* FullPDFObject otherwise), then, only for a page with a sub-page navigation
\* list of N entries, N + 2 navigation nodes of which the first is the
\* DelayedPage's subnav_root, and last the DelayedPage, with consecutive
\* numbers; the page appends exactly three objects when it has no navigation
\* list, whatever its annotations, structure items and transition.
C4_PageObjectsWithNavigation ==
    [][PageAdded =>
         LET n == size(doc.document_objects)
             k == Len(Appended)
             page == Appended[k]
             navs == SubSeq(Appended, 3, k - 1)
         IN /\ OldEntriesKept
            /\ k >= 3
            /\ IsResources(Appended[1])
            /\ IsContents(Appended[2])
            /\ page.kind = "DelayedPage"
            /\ back(doc'.pages) = [resource_obj_num |-> n,
                                   commands_obj_num |-> n + 1,
                                   page_obj_num |-> n + k - 1]
            /\ \A i \in DOMAIN navs : IsNavNode(navs[i])
            /\ IF page.subnav_root = None
               THEN k = 3
               ELSE /\ page.subnav_root = Some(n + 2)
                    /\ k > 3
                    /\ Len(navs) = Len(ValueOf(navs[1].d.NA).ocgs) + 2]_vars

\* A page with a navigation list, annotations, structure items and a
\* transition was just added.
C4_Witness ==
    /\ ret.op = "add_page"
    /\ ret.err = NoError
    /\ doc.pages # <<>>
    /\ LET page == ObjAt(doc, back(doc.pages).page_obj_num)
       IN /\ back(doc.pages).page_obj_num = size(doc.document_objects) - 1
          /\ page.subnav_root # None
          /\ page.used_annotations # {}
          /\ page.structparents # None
          /\ page.transition # None

\* C5: for every index i of the page list, pages[i].page_obj_num is the
\* number of a DelayedPage whose page_num is i, the three numbers of the
\* entry increase from resource to content stream to page, and the table
\* holds exactly as many DelayedPage entries as the list has pages.
C5_PageListMatchesTable ==
    /\ \A i \in DOMAIN doc.pages :
          LET pg == doc.pages[i]
          IN /\ pg.page_obj_num < size(doc.document_objects)
             /\ ObjAt(doc, pg.page_obj_num).kind = "DelayedPage"
             /\ ObjAt(doc, pg.page_obj_num).page_num = i - 1
             /\ pg.resource_obj_num < pg.commands_obj_num
             /\ pg.commands_obj_num < pg.page_obj_num
    /\ Cardinality(PageObjs(doc)) = Len(doc.pages)

\* Two pages, the second of them with navigation nodes between its content
\* stream and its DelayedPage.
C5_Witness ==
    /\ Len(doc.pages) = 2
    /\ doc.pages[2].page_obj_num > doc.pages[2].commands_obj_num + 1


\* ------------------------------------------------------------------------
\* Object numbering and the catalog
\* ------------------------------------------------------------------------
Constructed == doc.state \in {"ready", "finalized", "threw"}

\* C1: after init and any sequence of object-adding operations, index 0 of
\* document_objects holds the DummyIndexZero sentinel, the numbers handed out
\* are 1, 2, 3, ... without a gap, each number is the position at which its
\* object sits in the table, and no step moves, removes or renumbers an
\* entry that was already handed out.
C1_NumbersArePositions ==
    /\ [](Constructed =>
            /\ size(doc.document_objects) >= 1
            /\ ObjAt(doc, 0) = DummyIndexZero
            /\ Len(doc.issued) = size(doc.document_objects) - 1
            /\ \A k \in DOMAIN doc.issued :
                  /\ doc.issued[k].num = k
                  /\ ObjAt(doc, k) = doc.issued[k].obj)
    /\ [][/\ OldEntriesKept
          /\ Len(doc'.issued) >= Len(doc.issued)
          /\ SubSeq(doc'.issued, 1, Len(doc.issued)) = doc.issued]_vars

\* A finished document whose numbers came from init, a page, an outline and
\* the catalog.
C1_Witness ==
    /\ doc.state = "finalized"
    /\ doc.pages # <<>>
    /\ doc.outlines.items # <<>>
    /\ AddedObjects >= 6

CatalogCreated == ret'.op = "create_catalog" /\ ret'.err = NoError /\ Ready

CountOf(objs, tag) == Cardinality({i \in DOMAIN objs : objs[i].tag = tag})

\* C6: when create_catalog returns successfully the catalog is the last
\* object of the table; the name dictionary, the outline items, the Outlines
\* root, the structure parent tree and the structure root it synthesized
\* (each present exactly when there are embedded files, outlines, structure
\* items) all have smaller numbers, and the catalog refers to them.
C6_CatalogIsLast ==
    [][CatalogCreated =>
         LET k == Len(Appended)
             n == size(doc.document_objects)
             catalog == Appended[k]
             files == IF doc.embedded_files # <<>> THEN 1 ELSE 0
             items == Len(doc.outlines.items)
             roots == IF items > 0 THEN 1 ELSE 0
             trees == IF doc.structure_items # <<>> THEN 1 ELSE 0
         IN /\ OldEntriesKept
            /\ k >= 1
            /\ \A i \in 1..k : Appended[i].kind = "FullPDFObject"
            /\ catalog.tag = "Catalog"
            /\ CountOf(Appended, "Catalog") = 1
            /\ CountOf(Appended, "NameDict") = files
            /\ CountOf(Appended, "Outline") = items
            /\ CountOf(Appended, "Outlines") = roots
            /\ CountOf(Appended, "ParentTree") = trees
            /\ CountOf(Appended, "StructTreeRoot") = trees
            /\ k = 1 + files + items + roots + 2 * trees
            /\ \A r \in {catalog.d.Names, catalog.d.Outlines,
                         catalog.d.StructTreeRoot} :
                  r # None => n <= ValueOf(r) /\ ValueOf(r) < n + k - 1
            /\ (catalog.d.Names # None) = (files = 1)
            /\ (catalog.d.Outlines # None) = (roots = 1)
            /\ (catalog.d.StructTreeRoot # None) = (trees = 1)]_vars

\* The catalog of a document with an embedded file, an outline and a
\* structure item was written.
C6_Witness ==
    /\ ret.op = "create_catalog"
    /\ ret.err = NoError
    /\ doc.state = "finalized"
    /\ doc.embedded_files # <<>>
    /\ doc.outlines.items # <<>>
    /\ doc.structure_items # <<>>

\* ------------------------------------------------------------------------
\* The catalog's form and optional-content entries (C18)
\* ------------------------------------------------------------------------
\* The dictionary of the catalog of a finalized document.
CatalogOf(d) == d.document_objects[Len(d.document_objects)].d

\* C18: the catalog built by create_catalog contains /AcroForm whenever the
\* document has any form widget (a create_form_checkbox succeeded), whether or
\* not a widget was placed on a page, and contains /OCProperties exactly when
\* at least one optional content group was added.
C18_CatalogFormsAndGroups ==
    doc.state = "finalized" =>
        /\ doc.form_widgets # <<>> => CatalogOf(doc).AcroForm # None
        /\ (CatalogOf(doc).OCProperties # None) = (doc.ocg_items # <<>>)

\* ------------------------------------------------------------------------
\* The structure root (C19)
\* ------------------------------------------------------------------------
ParentlessItems ==
    {i \in 1..Len(doc.structure_items) : doc.structure_items[i].parent = None}

\* C19: when the structure root dictionary is built, exactly one structure
\* item has no parent and /K of the StructTreeRoot references that item's
\* object: a document with two or more parentless items is not finalized
\* with a structure root.
C19_SingleStructureRoot ==
    (doc.state = "finalized" /\ doc.structure_root_object # None) =>
        /\ Cardinality(ParentlessItems) = 1
        /\ \A i \in ParentlessItems :
              ObjAt(doc, ValueOf(doc.structure_root_object)).d.K
                  = doc.structure_items[i].obj_id

\* ------------------------------------------------------------------------
\* The outline tree (C20)
\* ------------------------------------------------------------------------
OutlineIds == 0..(Len(doc.outlines.items) - 1)

\* The items inserted under the same parent as item i, and the children of i.
SiblingsOf(i) ==
    {j \in OutlineIds : doc.outlines.items[j + 1].parent = doc.outlines.items[i + 1].parent}
ChildrenOf(i) == {j \in OutlineIds : doc.outlines.items[j + 1].parent = Some(i)}

Smallest(S) == CHOOSE x \in S : \A y \in S : x <= y
Largest(S) == CHOOSE x \in S : \A y \in S : y <= x

\* A reference to item j counted from object number first, absent for no item.
RefTo(first, S) == IF S = {} THEN None ELSE Some(first + Smallest(S))
RefToLast(first, S) == IF S = {} THEN None ELSE Some(first + Largest(S))

\* C20: for outlines added with each parent an id returned earlier,
\* create_outlines writes item i as object first_obj_num + i; /Prev is the
\* sibling inserted immediately before under the same parent and /Next the
\* one inserted immediately after (absent at the two ends), so A./Next = B
\* exactly when B./Prev = A; /First and /Last are the first and last inserted
\* child; /Parent is the parent item, or for a top-level item the Outlines
\* root object that create_outlines returns.
C20_OutlineLinks ==
    (doc.state = "finalized" /\ doc.outlines.items # <<>>) =>
        LET root == ValueOf(CatalogOf(doc).Outlines)
            first == root - Len(doc.outlines.items)
            item(i) == ObjAt(doc, first + i)
        IN  /\ ObjAt(doc, root).tag = "Outlines"
            /\ \A i \in OutlineIds :
                  /\ item(i).kind = "FullPDFObject" /\ item(i).tag = "Outline"
                  /\ item(i).d.Prev =
                        RefToLast(first, {j \in SiblingsOf(i) : j < i})
                  /\ item(i).d.Next =
                        RefTo(first, {j \in SiblingsOf(i) : j > i})
                  /\ item(i).d.First = RefTo(first, ChildrenOf(i))
                  /\ item(i).d.Last = RefToLast(first, ChildrenOf(i))
                  /\ item(i).d.Parent =
                        IF doc.outlines.items[i + 1].parent = None THEN root
                        ELSE first + ValueOf(doc.outlines.items[i + 1].parent)
            /\ \A a, b \in OutlineIds :
                  (item(a).d.Next = Some(first + b)) = (item(b).d.Prev = Some(first + a))

\* C20 witness: a finalized document whose first outline has two children,
\* the second and the third.
C20_Witness ==
    /\ doc.state = "finalized"
    /\ Len(doc.outlines.items) = 3
    /\ doc.outlines.items[1].parent = None
    /\ doc.outlines.items[2].parent = Some(0)
    /\ doc.outlines.items[3].parent = Some(0)

\* ------------------------------------------------------------------------
\* Sub-page navigation nodes (C21, C25, C26)
\* ------------------------------------------------------------------------
\* The number the next added object gets, which create_subnavigation gives
\* to its root node.
NextObjectNumber == size(doc.document_objects)

\* The document after create_subnavigation(sn) on the present document.
AfterSubnavigation(sn) == create_subnavigation(doc, sn).doc

\* In the document after, node number j counted from the root (0) that was
\* written at object number R, and the number of nodes written.
NodeOf(after, R, j) == ObjAt(after, R + j)
NodeCount(after, R) == size(after.document_objects) - R

\* C21: create_subnavigation called with N >= 1 entries appends exactly N + 2
\* consecutive objects (the root at root_obj, one node per entry in list
\* order, a final node at root_obj + N + 1) and returns root_obj; every /Next
\* and /Prev it writes refers to one of these objects, the root's /Prev is
\* the final node, and following /Next from the root visits all N + 2 nodes
\* in creation order.
C21_NavigationNodesAppended ==
    Ready => \A sn \in NavLists :
        LET N == Len(sn)
            R == NextObjectNumber
            after == AfterSubnavigation(sn)
        IN  /\ create_subnavigation(doc, sn).val = R
            /\ size(after.document_objects) = R + N + 2
            /\ SubSeq(after.document_objects, 1, R) = doc.document_objects
            /\ \A j \in 0..(N + 1) :
                  /\ IsNavNode(NodeOf(after, R, j))
                  /\ NodeOf(after, R, j).d.Next # None
                        => ValueOf(NodeOf(after, R, j).d.Next) \in R..(R + N + 1)
                  /\ NodeOf(after, R, j).d.Prev # None
                        => ValueOf(NodeOf(after, R, j).d.Prev) \in R..(R + N + 1)
            /\ \A j \in 1..N :
                  ValueOf(NodeOf(after, R, j).d.NA).ocgs
                     = <<ocg_object_number(doc, sn[j].id)>>
            /\ NodeOf(after, R, 0).d.Prev = Some(R + 1 + N)
            /\ \A j \in 0..N : NodeOf(after, R, j).d.Next = Some(R + j + 1)
            /\ NodeOf(after, R, N + 1).d.Next = None

\* C21 witness: a page was added whose navigation list has three entries;
\* its five nodes sit between its content stream and its DelayedPage.
C21_Witness ==
    /\ ret.op = "add_page"
    /\ ret.err = NoError
    /\ doc.pages # <<>>
    /\ LET pg == back(doc.pages)
       IN /\ ObjAt(doc, pg.page_obj_num).subnav_root = Some(pg.commands_obj_num + 1)
          /\ pg.page_obj_num = pg.commands_obj_num + 6

\* The /Next and /Prev links of node j mirror each other: the node its /Next
\* names has it as /Prev, and the node its /Prev names has it as /Next.
LinksMirrored(after, R, j) ==
    LET node == NodeOf(after, R, j)
    IN  /\ node.d.Next # None => ObjAt(after, ValueOf(node.d.Next)).d.Prev = Some(R + j)
        /\ node.d.Prev # None => ObjAt(after, ValueOf(node.d.Prev)).d.Next = Some(R + j)

\* C25 as stated: the links of every node of one create_subnavigation call,
\* the root included, mirror each other.
C25_LinksMirroredEverywhere ==
    Ready => \A sn \in NavLists :
        LET R == NextObjectNumber
            after == AfterSubnavigation(sn)
        IN  /\ NodeCount(after, R) = Len(sn) + 2
            /\ \A j \in 0..(NodeCount(after, R) - 1) : LinksMirrored(after, R, j)

\* C25 (amended): in the navigation nodes written by one create_subnavigation
\* call the /Next and /Prev links of the N per-entry nodes and of the final
\* node mirror each other; the root's links are one-way: its /Next is the
\* node of the first entry, which has no /Prev, and its /Prev is the final
\* node, which has no /Next.
C25_LinksMirroredBelowRoot ==
    Ready => \A sn \in NavLists :
        LET N == Len(sn)
            R == NextObjectNumber
            after == AfterSubnavigation(sn)
        IN  /\ NodeCount(after, R) = N + 2
            /\ \A j \in 1..(NodeCount(after, R) - 1) : LinksMirrored(after, R, j)
            /\ NodeOf(after, R, 0).d.Next = Some(R + 1)
            /\ NodeOf(after, R, 1).d.Prev = None
            /\ NodeOf(after, R, 0).d.Prev = Some(R + 1 + N)
            /\ NodeOf(after, R, N + 1).d.Next = None

\* C25 witness: a page was added whose navigation list has two entries, so
\* both per-entry nodes and the final node carry mirrored links.
C25_Witness ==
    /\ ret.op = "add_page"
    /\ ret.err = NoError
    /\ doc.pages # <<>>
    /\ LET pg == back(doc.pages)
           R == pg.commands_obj_num + 1
       IN /\ ObjAt(doc, pg.page_obj_num).subnav_root = Some(R)
          /\ pg.page_obj_num = R + 4
          /\ ObjAt(doc, R + 2).d.Prev = Some(R + 1)
          /\ ObjAt(doc, R + 1).d.Next = Some(R + 2)
          /\ ObjAt(doc, R + 3).d.Prev = Some(R + 2)

\* The optional content groups that are on after a viewer applies the
\* SetOCGState action act (an optional) to the groups in on.
ApplyOCGAction(on, act) ==
    IF act = None THEN on
    ELSE LET listed == {ValueOf(act).ocgs[i] : i \in DOMAIN ValueOf(act).ocgs}
         IN IF ValueOf(act).State = "ON" THEN on \cup listed ELSE on \ listed

\* A viewer of the document after, standing at object number at with the
\* groups in on visible, makes steps forward steps: each applies the node's
\* /NA and follows its /Next.
RECURSIVE StepForward(_, _, _, _)
StepForward(after, at, on, steps) ==
    IF steps = 0 \/ ObjAt(after, at).d.Next = None THEN [at |-> at, on |-> on]
    ELSE StepForward(after, ValueOf(ObjAt(after, at).d.Next),
                     ApplyOCGAction(on, ObjAt(after, at).d.NA), steps - 1)

\* The same backwards: each step applies the node's /PA and follows its /Prev.
RECURSIVE StepBack(_, _, _, _)
StepBack(after, at, on, steps) ==
    IF steps = 0 \/ ObjAt(after, at).d.Prev = None THEN [at |-> at, on |-> on]
    ELSE StepBack(after, ValueOf(ObjAt(after, at).d.Prev),
                  ApplyOCGAction(on, ObjAt(after, at).d.PA), steps - 1)

\* The object numbers of the groups of the list entries 0..k-1.
GroupsOfFirst(sn, k) == {ocg_object_number(doc, sn[i].id) : i \in 1..k}

\* C26: stepping forward from the root and applying each /NA, the first step
\* turns every listed group off and each later step turns on the group of the
\* next entry only, so after 1 + k steps exactly the groups of entries
\* 0..k-1 are on; stepping back from the final node and applying each /PA
\* turns them off again in reverse list order.
C26_StepsToggleGroupsInOrder ==
    Ready => \A sn \in NavLists :
        LET N == Len(sn)
            R == NextObjectNumber
            after == AfterSubnavigation(sn)
        IN  /\ NodeCount(after, R) = N + 2
            /\ \A before \in SUBSET GroupsOfFirst(sn, N) : \A k \in 0..N :
                  StepForward(after, R, before, 1 + k)
                     = [at |-> R + 1 + k, on |-> GroupsOfFirst(sn, k)]
            /\ \A m \in 0..N :
                  StepBack(after, R + N + 1, GroupsOfFirst(sn, N), m)
                     = [at |-> R + N + 1 - m, on |-> GroupsOfFirst(sn, N - m)]

\* C26 witness: a page carries the nodes of a three-entry list whose first
\* entry shows the group created last, so the order of the steps is the
\* order of the list and not that of the group ids.
C26_Witness ==
    /\ ret.op = "add_page"
    /\ ret.err = NoError
    /\ doc.pages # <<>>
    /\ Len(doc.ocg_items) = 3
    /\ LET pg == back(doc.pages)
           R == pg.commands_obj_num + 1
       IN /\ ObjAt(doc, pg.page_obj_num).subnav_root = Some(R)
          /\ pg.page_obj_num = R + 5
          /\ ValueOf(ObjAt(doc, R + 1).d.NA).ocgs = <<doc.ocg_items[3]>>
          /\ ValueOf(ObjAt(doc, R + 4).d.PA).ocgs = <<doc.ocg_items[1]>>

\* ------------------------------------------------------------------------
\* Structure parents of pages (C22)
\* ------------------------------------------------------------------------
\* Structure items, pages that mark some of them, and the catalog.
MaxMarkedItems == 2

\* The lists of marked structure items a page hands over: none, one item,
\* two items in either order, and an item that may not exist.
StructLists == {<<>>, <<0>>, <<1>>, <<0, 1>>, <<1, 0>>}

AddMarkedItem ==
    /\ AddStructureItem
    /\ Len(doc'.structure_items) <= MaxMarkedItems

AddMarkedPage ==
    AddPageFrom({[fws |-> {}, annots |-> {}, structs |-> s] : s \in StructLists},
                {None}, {<<>>})

NextStruct ==
    \/ construct
    \/ AddMarkedItem
    \/ AddMarkedPage
    \/ CreateCatalog

SpecStruct == InitD /\ [][NextStruct]_vars

\* The DelayedPage of page i (counted from 0), and the number of pages before
\* page i of document d that were added with a non-empty list.
DelayedPageOf(d, i) == ObjAt(d, d.pages[i + 1].page_obj_num)
MarkedPagesBefore(d, i) ==
    Cardinality({p \in 0..(i - 1) : DelayedPageOf(d, p).structparents # None})

\* The structure root and the parent tree a finalized document carries.
StructTreeRootOf(d) == ObjAt(d, ValueOf(d.structure_root_object))
ParentTreeOf(d) == ObjAt(d, ValueOf(d.structure_parent_tree_object))

DeviceColors == {"DeviceRGBColor", "DeviceGrayColor", "DeviceCMYKColor"}
Colors == DeviceColors \cup {"ICCColor"}
colorspace_of(c) ==
    CASE c = "DeviceRGBColor" -> "DeviceRGB"
      [] c = "DeviceGrayColor" -> "DeviceGray"
      [] c = "DeviceCMYKColor" -> "DeviceCMYK"

\* append_floatvalue applied to the ratio num / den (den > 0): the value is
\* refused when it is below 0 or above 1.
append_floatvalue(num, den) ==
    IF num < 0 \/ num > den THEN "ColorOutOfRange" ELSE NoError

\* The two coordinates of point p written as fractions of the shade's box.
append_point(shade, p) ==
    IF append_floatvalue(p.x - shade.minx, shade.maxx - shade.minx) # NoError
    THEN "ColorOutOfRange"
    ELSE append_floatvalue(p.y - shade.miny, shade.maxy - shade.miny)

Serialized(s) == [err |-> NoError, aborted |-> FALSE, s |-> s]
SerializeError(e) == [err |-> e, aborted |-> FALSE, s |-> <<>>]
SerializeAbort == [err |-> NoError, aborted |-> TRUE, s |-> <<>>]

\* serialize_shade4, from element i on with s written so far
RECURSIVE serialize_shade4_from(_, _, _)
serialize_shade4_from(shade, i, s) ==
    IF i > Len(shade.elements) THEN Serialized(s)
    ELSE LET e == shade.elements[i]
         IN IF append_point(shade, e.sp.p) # NoError
            THEN SerializeError(append_point(shade, e.sp.p))
            ELSE IF e.sp.c \in DeviceColors
            THEN IF shade.colorspace # colorspace_of(e.sp.c)
                 THEN SerializeError("ColorspaceMismatch")
                 ELSE serialize_shade4_from(shade, i + 1,
                          Append(s, [flag |-> e.flag, p |-> e.sp.p, c |-> e.sp.c]))
            ELSE SerializeAbort

serialize_shade4(shade) == serialize_shade4_from(shade, 1, <<>>)

\* The first point of a patch that append_floatvalue refuses, if any.
patch_points_error(shade, e) ==
    IF \E k \in DOMAIN e.p : append_point(shade, e.p[k]) # NoError
    THEN "ColorOutOfRange" ELSE NoError

\* The corner colors of a patch against the shade's colorspace.
patch_colors_error(shade, e) ==
    IF \E k \in DOMAIN e.c :
          e.c[k] \notin DeviceColors \/ colorspace_of(e.c[k]) # shade.colorspace
    THEN "ColorspaceMismatch" ELSE NoError

\* serialize_shade6, from element i on with s written so far
RECURSIVE serialize_shade6_from(_, _, _)
serialize_shade6_from(shade, i, s) ==
    IF i > Len(shade.elements) THEN Serialized(s)
    ELSE LET e == shade.elements[i]
         IN IF e.patch # "FullCoonsPatch" THEN SerializeAbort
            ELSE IF patch_points_error(shade, e) # NoError
            THEN SerializeError(patch_points_error(shade, e))
            ELSE IF patch_colors_error(shade, e) # NoError
            THEN SerializeError(patch_colors_error(shade, e))
            ELSE serialize_shade6_from(shade, i + 1,
                     Append(s, [flag |-> 0, p |-> e.p, c |-> e.c]))

serialize_shade6(shade) == serialize_shade6_from(shade, 1, <<>>)

\* PdfDocument::add_shading (ShadingType4 and ShadingType6); the ShadingId
\* is the number of the object added.
add_shading(d, shade) ==
    LET serialized == IF shade.shadingtype = 4 THEN serialize_shade4(shade)
                      ELSE serialize_shade6(shade)
        o == add_object(d, FullPDFObject("Shading",
                 [ShadingType |-> shade.shadingtype,
                  ColorSpace |-> shade.colorspace,
                  Decode |-> <<shade.minx, shade.maxx, shade.miny, shade.maxy>>,
                  stream |-> serialized.s]))
    IN IF serialized.aborted
       THEN [doc |-> d, err |-> NoError, val |-> NoVal, aborted |-> TRUE]
       ELSE IF serialized.err # NoError
       THEN [doc |-> d, err |-> serialized.err, val |-> NoVal, aborted |-> FALSE]
       ELSE [doc |-> o.doc, err |-> NoError, val |-> Id(o.val), aborted |-> FALSE]

\* ---- shades as the callers build them
MaxShadings == 2
DeviceColorspaces == {"DeviceRGB", "DeviceGray", "DeviceCMYK"}
\* The shades handed to add_shading, over the box [0,2] x [0,2]: type 4
\* shades of one or two vertices, each inside or outside the box and of any
\* color; type 6 shades of one or two patches, each a full patch (twelve
\* control points, the last inside or outside the box, four corners of one
\* color or a third corner of another) or a continuation patch.
Shades ==
    LET InsidePoint == [x |-> 1, y |-> 1]
        OutsidePoint == [x |-> 1, y |-> 3]
        ShadeVertices ==
            {[flag |-> 0, sp |-> [p |-> p, c |-> c]] :
                p \in {InsidePoint, OutsidePoint}, c \in Colors}
        PatchPoints(last) == [k \in 1..12 |-> IF k = 12 THEN last ELSE InsidePoint]
        CoonsPatches ==
            {[patch |-> "FullCoonsPatch", p |-> PatchPoints(last),
              c |-> [k \in 1..4 |-> IF k = 3 THEN third ELSE c]] :
                last \in {InsidePoint, OutsidePoint},
                c \in {"DeviceRGBColor", "DeviceGrayColor"},
                third \in {"DeviceRGBColor", "DeviceGrayColor", "ICCColor"}}
            \cup {[patch |-> "ContinuationCoonsPatch", p |-> <<>>, c |-> <<>>]}
        UpToTwo(S) == {<<a>> : a \in S} \cup {<<a, b>> : a \in S, b \in S}
        Shade(type, cs, elements) ==
            [shadingtype |-> type, colorspace |-> cs, minx |-> 0, maxx |-> 2,
             miny |-> 0, maxy |-> 2, elements |-> elements]
    IN {Shade(4, cs, es) : cs \in DeviceColorspaces, es \in UpToTwo(ShadeVertices)}
       \cup {Shade(6, cs, es) : cs \in {"DeviceRGB", "DeviceGray"},
                                es \in UpToTwo(CoonsPatches)}

ShadingsAdded ==
    Cardinality({n \in 0..(size(doc.document_objects) - 1) :
                    /\ ObjAt(doc, n).kind = "FullPDFObject"
                    /\ ObjAt(doc, n).tag = "Shading"})

\* add_shading as a step: the process stops where the serializer aborts.
AddShading ==
    /\ Ready
    /\ ShadingsAdded < MaxShadings
    /\ \E shade \in Shades :
          LET r == add_shading(doc, shade)
          IN IF r.aborted
             THEN aborted' = TRUE /\ UNCHANGED <<doc, ret, draw_vars>>
             ELSE DocStep("add_shading", Result(r.doc, r.err, r.val))

NextShade ==
    \/ construct
    \/ AddShading

SpecShade == InitD /\ [][NextShade]_vars

\* A shade with a vertex or patch-corner color of a color type other than
\* its declared colorspace; a shade whose coordinates all lie in its box; a
\* shade of vertices or of full patches only.
ColorsOf(e) == IF "sp" \in DOMAIN e THEN {e.sp.c} ELSE Elems(e.c)
PointsOf(e) == IF "sp" \in DOMAIN e THEN {e.sp.p} ELSE Elems(e.p)
HasForeignColor(shade) ==
    \E k \in DOMAIN shade.elements : \E c \in ColorsOf(shade.elements[k]) :
        c \notin DeviceColors \/ colorspace_of(c) # shade.colorspace
AllInsideBox(shade) ==
    \A k \in DOMAIN shade.elements : \A p \in PointsOf(shade.elements[k]) :
        append_point(shade, p) = NoError
FullPatchesOnly(shade) ==
    \A k \in DOMAIN shade.elements :
        "patch" \in DOMAIN shade.elements[k]
            => shade.elements[k].patch = "FullCoonsPatch"

\* C23: add_shading for a type 4 or type 6 shade with a vertex or
\* patch-corner color of a color type other than the shade's colorspace
\* fails with ColorspaceMismatch and appends no object; when every color
\* matches and all coordinates lie inside the box it appends exactly one
\* object and returns that object's number as the ShadingId.
C23_ForeignColorRejected ==
    Ready => \A shade \in {s \in Shades : FullPatchesOnly(s)} :
        LET r == add_shading(doc, shade)
        IN IF HasForeignColor(shade)
           THEN /\ ~r.aborted
                /\ r.err = "ColorspaceMismatch"
                /\ r.doc = doc
           ELSE AllInsideBox(shade) =>
                /\ ~r.aborted
                /\ r.err = NoError
                /\ size(r.doc.document_objects) = size(doc.document_objects) + 1
                /\ r.val = Id(size(doc.document_objects))
                /\ SubSeq(r.doc.document_objects, 1, size(doc.document_objects))
                      = doc.document_objects

\* ------------------------------------------------------------------------
\* Raster images and the output colorspace (C24, C30)
\* ------------------------------------------------------------------------
\* Documents of each output colorspace, with and without a CMYK profile.
MaxImages == 2

InitImage ==
    /\ InitDraw
    /\ aborted = FALSE
    /\ \E cs \in DeviceColorspaces, cm \in {NoProfiles, DocProfiles} :
          doc = NewDocument([DefaultOpts EXCEPT !.output_colorspace = cs], cm)
    /\ ret = NoRet

\* Decoded images of each colorspace with and without an alpha channel, an
\* RGB image with an embedded profile, and images without size or pixels.
ImageInputs ==
    LET plain(cs, alpha) == [w |-> 1, h |-> 1, pixels |-> "px", alpha |-> alpha,
                             icc_profile |-> "", cs |-> cs]
    IN {plain(cs, alpha) : cs \in DeviceColorspaces, alpha \in {"", "a"}}
       \cup {[plain("DeviceRGB", "a") EXCEPT !.icc_profile = "srgb.icc"],
             [plain("DeviceRGB", "a") EXCEPT !.w = 0],
             [plain("DeviceCMYK", "a") EXCEPT !.pixels = ""]}

AddRasterImage ==
    /\ Ready
    /\ Len(doc.image_info) < MaxImages
    /\ \E image \in ImageInputs, is_mask \in BOOLEAN :
          AssertingStep("add_image", add_image(doc, image, is_mask))

NextImage ==
    \/ construct
    \/ AddRasterImage

SpecImage == InitImage /\ [][NextImage]_vars

\* An image add_image accepts as far as its size, pixels and mask go.
WellFormedImage(image, is_mask) ==
    /\ image.w > 0 /\ image.h > 0
    /\ image.pixels # ""
    /\ ~(is_mask /\ image.alpha # "")

\* An image that would have to be converted to the output colorspace and
\* carries no profile.
NeedsConversion(image) ==
    /\ image.icc_profile = ""
    /\ image.cs # "DeviceGray"
    /\ image.cs # doc.opts.output_colorspace

\* C24: add_image fails with UnsupportedFormat for every non-gray image
\* without embedded profile whose colorspace differs from the document's
\* output colorspace: an RGB image in a CMYK document as well as a CMYK
\* image in an RGB or Gray document.
C24_ConversionUnsupported ==
    Ready => \A image \in ImageInputs, is_mask \in BOOLEAN :
        WellFormedImage(image, is_mask) /\ NeedsConversion(image)
            => add_image(doc, image, is_mask).err = "UnsupportedFormat"

\* C30: an add_image call that returns an error leaves the object table,
\* image_info and icc_profiles exactly as before the call, also when the
\* image carries an alpha channel; a successful call returns the ImageId
\* that indexes the image_info entry of the main image, whose obj field is
\* the number of the image object just appended.
C30_FailedImageLeavesNoTrace ==
    Ready => \A image \in ImageInputs, is_mask \in BOOLEAN :
        LET r == add_image(doc, image, is_mask)
            last == size(r.doc.document_objects) - 1
        IN IF r.err # NoError
           THEN /\ r.doc.document_objects = doc.document_objects
                /\ r.doc.image_info = doc.image_info
                /\ r.doc.icc_profiles = doc.icc_profiles
           ELSE /\ IsIndex(r.val.id, r.doc.image_info)
                /\ r.val.id = Len(r.doc.image_info) - 1
                /\ r.doc.image_info[r.val.id + 1].obj = last
                /\ size(r.doc.document_objects) > size(doc.document_objects)
                /\ ObjAt(r.doc, last).kind = "FullPDFObject"
                /\ ObjAt(r.doc, last).tag = "Image"
                /\ ObjAt(r.doc, last).d.stream = <<"flate", image.pixels>>

\* ------------------------------------------------------------------------
\* Indentation and the draw-state stack (C27)
\* ------------------------------------------------------------------------
\* C27: after any sequence of successful and failed indent and dedent calls
\* the indentation string is exactly two characters per draw-state stack
\* entry; therefore the std::abort in dedent is never reached.
C27_TwoCharactersPerEntry ==
    /\ Len(ind) = 2 * Len(dstate_stack)
    /\ \A i \in 1..Len(ind) : ind[i] = " "
    /\ ~aborted

\* C27 witness: three states are open after a close has succeeded, a
\* nested marked-content open was refused and left the six characters alone.
C27_Witness ==
    /\ draw_ret = "NestedBMC"
    /\ Len(dstate_stack) = 3
    /\ Len(ind) = 6
    /\ SumOver(closes) >= 1

\* ------------------------------------------------------------------------
\* Parents of structure items (C28)
\* ------------------------------------------------------------------------
\* The parents a caller may name: none, an id handed out, the id below the
\* first, the id the call itself is about to hand out, and the one after.
ParentChoices ==
    {None} \cup {Some(i) : i \in (-1)..(Len(doc.structure_items) + 1)}

\* C28: add_structure_item accepts a parent only if it is an id already
\* handed out; with any other parent id it fails with IndexOutOfBounds and
\* adds neither an object nor a structure item. Hence every structure
\* item's parent id is smaller than its own id, item 0 has no parent, and
\* item i's obj_id is the number of a DelayedStructItem entry holding i.
C28_ParentsAreEarlierItems ==
    /\ Ready => \A parent \in ParentChoices :
          LET r == add_structure_item(doc, "P", parent)
              n == Len(doc.structure_items)
          IN IF parent = None \/ ValueOf(parent) \in 0..(n - 1)
             THEN /\ r.err = NoError
                  /\ r.val = Id(n)
                  /\ Len(r.doc.structure_items) = n + 1
                  /\ r.doc.structure_items[n + 1].parent = parent
             ELSE /\ r.err = "IndexOutOfBounds"
                  /\ r.doc = doc
    /\ \A i \in 0..(Len(doc.structure_items) - 1) :
          LET item == doc.structure_items[i + 1]
          IN /\ item.parent # None =>
                   /\ 0 <= ValueOf(item.parent)
                   /\ ValueOf(item.parent) < i
             /\ i = 0 => item.parent = None
             /\ item.obj_id < size(doc.document_objects)
             /\ ObjAt(doc, item.obj_id) = [kind |-> "DelayedStructItem", sid |-> i]

\* C28 witness: item 1 was created under item 0, and a call naming the id
\* not yet handed out has just been refused.
C28_Witness ==
    /\ ret.op = "add_structure_item"
    /\ ret.err = "IndexOutOfBounds"
    /\ Len(doc.structure_items) = 2
    /\ doc.structure_items[2].parent = Some(0)

\* ------------------------------------------------------------------------
\* Font ids of loaded and builtin fonts (C29)
\* ------------------------------------------------------------------------
\* The FontIds get_builtin_font_id has handed out.
BuiltinFontIds == {doc.builtin_fonts[f] : f \in DOMAIN doc.builtin_fonts}

\* C29: across any interleaving of load_font and get_builtin_font_id, two
\* different fonts never receive the same FontId: each returned FontId is
\* the index of that font's own FontInfo in font_objects, and
\* get_builtin_font_id called again for the same builtin font returns the id
\* it returned before without appending an object.
C29_FontIdsDistinct ==
    Ready =>
        /\ \A font \in BuiltinFonts :
              LET r == get_builtin_font_id(doc, font)
              IN IF font \in DOMAIN doc.builtin_fonts
                 THEN r.val = Id(doc.builtin_fonts[font]) /\ r.doc = doc
                 ELSE /\ r.val.id = Len(doc.font_objects)
                      /\ Len(r.doc.font_objects) = Len(doc.font_objects) + 1
                      /\ r.val.id \notin BuiltinFontIds
        /\ \A f, g \in DOMAIN doc.builtin_fonts :
              doc.builtin_fonts[f] = doc.builtin_fonts[g] => f = g
        /\ \A fname \in FontFiles :
              LET r == load_font(doc, fname)
              IN r.err = NoError =>
                    /\ Len(r.doc.font_objects) = Len(doc.font_objects) + 1
                    /\ r.val.id = Len(doc.font_objects)
                    /\ r.val.id \notin BuiltinFontIds

====
